---- MODULE Spec2Model ----
(***************************************************************************)
(* ros2-client: Node, Spinner (src/src/node.rs) and AsyncActionServer      *)
(* (src/src/action.rs) as a state machine.                                 *)
(*                                                                         *)
(* The Spinner and the Node share their maps and the listener list through *)
(* Arc<Mutex<..>>, and the spinner may run on another thread than the code *)
(* that calls the Node, so a step of the model is one critical section     *)
(* (one lock held) or one channel operation.                               *)
(***************************************************************************)
EXTENDS Integers, Sequences, FiniteSets, TLC

\* ------------------------------------------------------------------ bounds
MaxEvents     == 4   \* events the spinner consumes in the map spec
MaxWaitEvents == 2   \* events the spinner consumes in the wait spec
MaxFanEvents  == 9   \* events the spinner consumes in the fan-out spec
MaxListeners  == 3   \* status channels ever created
MaxFanListeners == 2 \* listeners of the application in the fan-out spec
MaxTasks      == 1   \* wait_for_writer / wait_for_reader calls
MaxRequests   == 3   \* requests ever sent by the action client
MaxTime       == 2   \* the last tick of the clock
MaxReplies    == 3   \* replies waiting in the queues of the three clients
MaxFeedback   == 3   \* samples the feedback subscription receives
MaxStatusArrays == 2 \* samples the status subscription receives

\* --------------------------------------------------------- program constants
ListenerCap == 8     \* async_channel::bounded(8) in status_receiver
StopCap     == 1     \* async_channel::bounded(1) in spinner

\* ------------------------------------------------------------------ values
LocalReaders  == {"r1", "r2"}     \* GUIDs of readers of this participant
RemoteWriters == {"w1", "w2"}
LocalWriters  == {"lw1"}
RemoteReaders == {"rr1", "rr2"}
Gids          == {"p1", "p2"}     \* participant Gids seen on ros_discovery_info
NodeSeqs      == {"nA", "nB"}     \* values of node_entities_info_seq
NodeName      == "node"           \* fully_qualified_name of the Node

Tasks    == 1..MaxTasks
\* the task that runs Spinner::spin, next to the tasks of the calls
SpinnerTask == 0
\* the thread of the application that reads the counts
CountTask == MaxTasks + 1
Holders  == {SpinnerTask} \cup Tasks \cup {CountTask}
\* the Arc<Mutex<..>> fields the Node shares with its Spinner
Mutexes  ==
  {"external_nodes", "readers_to_remote_writers", "writers_to_remote_readers",
   "status_event_senders"}
Channels == 1..MaxListeners

\* NodeEvent / DomainParticipantStatusEvent, one record shape for all kinds:
\* local = local_reader / local_writer / participant gid, remote = the other
\* side (remote_writer, remote_reader, the lost guid, node_entities_info_seq).
Ev(k, l, r) == [kind |-> k, local |-> l, remote |-> r]
NoEvent     == Ev("none", "-", "-")
RWM(r, w)   == Ev("RemoteWriterMatched", r, w)
RRM(w, r)   == Ev("RemoteReaderMatched", w, r)
WriterLost(g) == Ev("WriterLost", "-", g)
ReaderLost(g) == Ev("ReaderLost", "-", g)
OtherDds    == Ev("OtherDds", "-", "-")
RosUpdate(gid, seq) == Ev("ROS", gid, seq)

EmptyMap == [x \in {} |-> {}]

VARIABLES
  \* ---- Node
  readers, writers,              \* BTreeSet<Gid> created via this Node
  stop_spin_sender,              \* "none" | "held" | "dropped"
  nodePc,                        \* "alive" | "signalled" | "removed" | "dropped"
  builtins,                      \* rosout / parameter_events endpoints alive
  \* ---- shared maps
  readers_to_remote_writers, writers_to_remote_readers, external_nodes,
  \* ---- listener list and the status channels
  status_event_senders,          \* Vec<Sender<NodeEvent>>, as channel ids
  chan,                          \* channel id -> [st, q]
  \* ---- Spinner
  spinPc,                        \* "none" | "created" | "select" | "bcast" | "done"
  cur,                           \* event whose handler is running
  stopQ,                         \* messages in the stop channel
  stop_spin_receiver,            \* "none" | "open" | "dropped"
  ddsEnded,                      \* the participant status stream has ended
  spinRet,                       \* "none" | "Ok" | "Err"
  rosout_writer,                 \* Option<Publisher<Log>>: TRUE for Some
  \* ---- Context
  ctxNodes, graphPubs,
  ctxInfo,                       \* the NodeEntitiesInfo update_node was last given
  \* ---- wait_for_writer / wait_for_reader calls
  taskPc, taskKind, taskArg, taskChan, taskPresent,
  \* ---- history (not program state)
  nConsumed, nBroadcast, matchedNow, qid, regAt, regCons, lastRecv, nRecv,
  overflow, dropTrace,
  lastCreate,                    \* the last create_subscription / create_publisher
  rosErrAt,                      \* nConsumed at the last error item of the graph topic
  guards,                        \* the MutexGuards alive in the spinner and in each call
  \* ---- AsyncActionServer
  goalReqs, goals, newHandles, acceptedHandles, goalResponses, statusPubs,
  srvPc, nextReq, discarded, lastOp,
  acceptedAt,                    \* history: the time a goal became Accepted
  \* ---- ActionClient and what is in flight between it and the server
  now,                           \* the clock
  cancelReqs,                    \* CancelGoalRequests sent, in order
  cancelYield,                   \* goal ids receive_cancel_request returned last
  lastCli,                       \* the last call of the client and its result
  replyQ,                        \* per poll operation: replies its client has queued
  lastPoll,                      \* the last poll-style receive and its result
  fbIn,                          \* samples the feedback subscription received
  fbGoal,                        \* goal id of the feedback_stream cursor, "-" if none
  fbPos,                         \* samples the feedback_stream cursor has taken
  fbOut,                         \* items the feedback_stream cursor has yielded
  stIn,                          \* samples the status subscription received
  stGoal,                        \* goal id of the status_stream cursor, "-" if none
  stPos,                         \* samples the status_stream cursor has taken
  stOut,                         \* items the status_stream cursor has yielded
  subArrived,                    \* two cursors: samples the feedback subscription received
  subQ,                          \* two cursors: indexes of the samples not yet taken
  curTook,                       \* two cursors: per goal id, indexes its cursor took
  curOut                         \* two cursors: per goal id, items its cursor yielded

nodeVars == <<readers, writers, stop_spin_sender, nodePc, builtins>>
mapVars  == <<readers_to_remote_writers, writers_to_remote_readers, external_nodes>>
lsnVars  == <<status_event_senders, chan>>
spinVars == <<spinPc, cur, stopQ, stop_spin_receiver, ddsEnded, spinRet>>
ctxVars  == <<ctxNodes, graphPubs, ctxInfo, rosout_writer>>
taskVars == <<taskPc, taskKind, taskArg, taskChan, taskPresent>>
histVars == <<nConsumed, nBroadcast, matchedNow, qid, regAt, regCons, lastRecv,
              nRecv, overflow, dropTrace, lastCreate, rosErrAt, guards>>
pollVars == <<replyQ, lastPoll>>
fbVars   == <<fbIn, fbGoal, fbPos, fbOut>>
stVars   == <<stIn, stGoal, stPos, stOut>>
muxVars  == <<subArrived, subQ, curTook, curOut>>
rcvVars  == <<pollVars, fbVars, stVars, muxVars>>
cliVars  == <<now, cancelReqs, cancelYield, lastCli, rcvVars>>
actVars  == <<goalReqs, goals, newHandles, acceptedHandles, goalResponses,
              statusPubs, srvPc, nextReq, discarded, lastOp, acceptedAt, cliVars>>
vars == <<nodeVars, mapVars, lsnVars, spinVars, ctxVars, taskVars, histVars, actVars>>

NoOp == [op |-> "none", goal_id |-> "-", req_id |-> 0, pre |-> "-", ret |-> "-"]
\* the poll-style receives of ActionClient, each reading its own client
PollOps == {"receive_goal_response", "receive_cancel_response", "receive_result"}
RetNone == [tag |-> "None", val |-> "-"]
RetErr == [tag |-> "Err", val |-> "-"]
RetSome(v) == [tag |-> "Some", val |-> v]
NoPoll == [op |-> "none", req_id |-> 0, ret |-> RetNone, taken |-> 0]

NoCall == [op |-> "none", goal_id |-> "-", stamp |-> 0, ret |-> 0]

NoInfo == [name |-> "-", readers |-> {}, writers |-> {}]
NoCreate == [op |-> "none", gid |-> "-", ret |-> "-"]

\* The state after Node::new, but for the option enable_rosout.
InitNode ==
  /\ readers = {} /\ writers = {}
  /\ stop_spin_sender = "none" /\ nodePc = "alive" /\ builtins = TRUE
  /\ readers_to_remote_writers = EmptyMap
  /\ writers_to_remote_readers = EmptyMap
  /\ external_nodes = EmptyMap
  /\ status_event_senders = <<>>
  /\ chan = [c \in Channels |-> [st |-> "unused", q |-> <<>>]]
  /\ spinPc = "none" /\ cur = NoEvent /\ stopQ = 0
  /\ stop_spin_receiver = "none" /\ ddsEnded = FALSE /\ spinRet = "none"
  /\ ctxNodes = {} /\ graphPubs = <<>> /\ ctxInfo = NoInfo
  /\ taskPc = [t \in Tasks |-> "idle"]
  /\ taskKind = [t \in Tasks |-> "-"]
  /\ taskArg = [t \in Tasks |-> "-"]
  /\ taskChan = [t \in Tasks |-> 0]
  /\ taskPresent = [t \in Tasks |-> FALSE]
  /\ nConsumed = 0 /\ nBroadcast = 0 /\ matchedNow = {}
  /\ qid = [c \in Channels |-> <<>>]
  /\ regAt = [c \in Channels |-> 0]
  /\ regCons = [c \in Channels |-> 0]
  /\ lastRecv = [c \in Channels |-> 0]
  /\ nRecv = [c \in Channels |-> 0]
  /\ overflow = [c \in Channels |-> FALSE]
  /\ dropTrace = <<>> /\ lastCreate = NoCreate /\ rosErrAt = -1
  /\ guards = [h \in Holders |-> {}]
  /\ goalReqs = <<>> /\ goals = EmptyMap /\ newHandles = {}
  /\ acceptedHandles = {} /\ goalResponses = {} /\ statusPubs = <<>>
  /\ srvPc = "idle" /\ nextReq = 1 /\ discarded = {} /\ lastOp = NoOp
  /\ acceptedAt = [g \in {} |-> 0]
  /\ now = 1 /\ cancelReqs = <<>> /\ cancelYield = {} /\ lastCli = NoCall
  /\ replyQ = [op \in PollOps |-> <<>>] /\ lastPoll = NoPoll
  /\ fbIn = <<>> /\ fbGoal = "-" /\ fbPos = 0 /\ fbOut = <<>>
  /\ stIn = <<>> /\ stGoal = "-" /\ stPos = 0 /\ stOut = <<>>
  /\ subArrived = <<>> /\ subQ = <<>>
  /\ curTook = [g \in {"g1", "g2"} |-> <<>>] /\ curOut = [g \in {"g1", "g2"} |-> <<>>]

\* NodeOptions::new(): enable_rosout is true
Init == InitNode /\ rosout_writer = TRUE

\* either value of NodeOptions::enable_rosout
InitOptions == InitNode /\ rosout_writer \in BOOLEAN

\* ------------------------------------------------------------------ Node

\* A variant in which the test never finds a sender.
HasSpinnerNever == FALSE

\* self.stop_spin_sender.is_some()
HasSpinner == stop_spin_sender # "none"

\* Node::spinner when a spinner was handed out before: the panic, before
\* anything is written
NodeSpinnerPanic ==
  /\ nodePc = "alive"
  /\ HasSpinner
  /\ UNCHANGED <<nodeVars, mapVars, lsnVars, spinVars, ctxVars, taskVars, actVars>>

\* Node::spinner: panics when a spinner was already handed out, otherwise
\* creates the stop channel and keeps its sender.
NodeSpinner ==
  /\ nodePc = "alive"
  /\ ~HasSpinner
  /\ stop_spin_sender' = "held"
  /\ stop_spin_receiver' = "open"
  /\ spinPc' = "created"
  /\ UNCHANGED <<readers, writers, nodePc, builtins, mapVars, lsnVars, cur,
                 stopQ, ddsEnded, spinRet, ctxVars, taskVars, actVars>>

\* --------------------------------------------------------------- Spinner

\* Spinner::spin up to the loop: creating the ros_discovery_info
\* subscription may fail, and then spin returns the error (the `?`).
SpinStart ==
  /\ spinPc = "created"
  /\ \E ok \in BOOLEAN :
       IF ok
         THEN /\ spinPc' = "select"
              /\ UNCHANGED <<stop_spin_receiver, spinRet>>
         ELSE /\ spinPc' = "done"
              /\ spinRet' = "Err"
              /\ stop_spin_receiver' = "dropped"
  /\ UNCHANGED <<nodeVars, mapVars, lsnVars, cur, stopQ, ddsEnded, ctxVars,
                 taskVars, actVars>>

\* A variant that takes the key for the value and the value for the key.
EntryInsertSwapped(m, k, v) ==
  [x \in DOMAIN m \cup {v} |->
     IF x = v THEN (IF v \in DOMAIN m THEN m[v] \cup {k} ELSE {k}) ELSE m[x]]

\* A variant that stores the new value in place of the set.
EntryInsertReplaces(m, k, v) ==
  [x \in DOMAIN m \cup {k} |-> IF x = k THEN {v} ELSE m[x]]

\* BTreeMap::entry(k).and_modify(|s| s.insert(v)).or_insert(BTreeSet::from([v]))
EntryInsert(m, k, v) ==
  [x \in DOMAIN m \cup {k} |->
     IF x = k THEN (IF k \in DOMAIN m THEN m[k] \cup {v} ELSE {v}) ELSE m[x]]

\* A variant that also drops the keys whose set became empty.
RemoveFromAllPrunes(m, g) == [x \in {y \in DOMAIN m : m[y] \ {g} # {}} |-> m[x] \ {g}]

\* for (_local, set) in map.iter_mut() { set.remove(&guid); }
RemoveFromAll(m, g) == [x \in DOMAIN m |-> m[x] \ {g}]

\* The dp_status_event branch of the select, up to the end of the match:
\* the event is taken from the stream and the maps are updated.
SpinDds(e) ==
  /\ spinPc = "select"
  /\ ~ddsEnded
  /\ writers_to_remote_readers' =
       IF e.kind = "RemoteReaderMatched"
         THEN EntryInsert(writers_to_remote_readers, e.local, e.remote)
       ELSE IF e.kind = "ReaderLost"
         THEN RemoveFromAll(writers_to_remote_readers, e.remote)
       ELSE writers_to_remote_readers
  /\ readers_to_remote_writers' =
       IF e.kind = "RemoteWriterMatched"
         THEN EntryInsert(readers_to_remote_writers, e.local, e.remote)
       ELSE IF e.kind = "WriterLost"
         THEN RemoveFromAll(readers_to_remote_writers, e.remote)
       ELSE readers_to_remote_writers
  /\ cur' = e
  /\ spinPc' = "bcast"
  /\ UNCHANGED <<nodeVars, external_nodes, lsnVars, stopQ, stop_spin_receiver,
                 ddsEnded, spinRet, ctxVars, taskVars, actVars>>

\* A variant that keeps the value a key already has.
MapInsertKeepsOld(m, k, v) ==
  [x \in DOMAIN m \cup {k} |-> IF x \in DOMAIN m THEN m[x] ELSE v]

\* BTreeMap::insert(k, v)
MapInsert(m, k, v) == [x \in DOMAIN m \cup {k} |-> IF x = k THEN v ELSE m[x]]

\* The ros_discovery_stream branch with an Ok item: external_nodes is
\* updated, the broadcast follows.
SpinRos(gid, seq) ==
  /\ spinPc = "select"
  /\ external_nodes' = MapInsert(external_nodes, gid, seq)
  /\ cur' = RosUpdate(gid, seq)
  /\ spinPc' = "bcast"
  /\ UNCHANGED <<nodeVars, readers_to_remote_writers, writers_to_remote_readers,
                 lsnVars, stopQ, stop_spin_receiver, ddsEnded, spinRet, ctxVars,
                 taskVars, actVars>>

\* A variant in which an Err item ends the loop.
SpinRosErrBreaks ==
  /\ spinPc = "select"
  /\ spinPc' = "done"
  /\ spinRet' = "Ok"
  /\ stop_spin_receiver' = "dropped"
  /\ UNCHANGED <<nodeVars, mapVars, lsnVars, cur, stopQ, ddsEnded, ctxVars,
                 taskVars, actVars>>

\* The ros_discovery_stream branch with an Err item: nothing is done.
SpinRosErr ==
  /\ spinPc = "select"
  /\ UNCHANGED <<nodeVars, mapVars, lsnVars, spinVars, ctxVars, taskVars, actVars>>

\* A variant that finds every channel full.
TrySendFull(c) == "Full"

\* A variant without the bound of the channel.
TrySendUnbounded(c) == IF chan[c].st = "closed" THEN "Closed" ELSE "Ok"

\* async_channel::Sender::try_send on status channel c
TrySend(c) ==
  IF chan[c].st = "closed" THEN "Closed"
  ELSE IF Len(chan[c].q) >= ListenerCap THEN "Full"
  ELSE "Ok"

\* A variant in which a Closed error is ignored as a Full one is.
ClosedIdxNone(s, i) == <<>>

\* `closed`: the indices whose try_send reported Closed, ascending
RECURSIVE ClosedIdx(_, _)
ClosedIdx(s, i) ==
  IF i > Len(s) THEN <<>>
  ELSE (IF TrySend(s[i]) = "Closed" THEN <<i>> ELSE <<>>) \o ClosedIdx(s, i + 1)

\* Vec::swap_remove(i): element i is replaced by the last one
swap_remove(s, i) ==
  LET n == Len(s) IN
  IF i = n THEN SubSeq(s, 1, n - 1)
  ELSE [j \in 1..(n - 1) |-> IF j = i THEN s[n] ELSE s[j]]

\* A variant that removes in ascending order; an index past the end (where
\* Vec::swap_remove panics) ends the removal.
RECURSIVE RemoveClosedAscending(_, _)
RemoveClosedAscending(s, closed) ==
  IF closed = <<>> \/ Head(closed) > Len(s) THEN s
  ELSE RemoveClosedAscending(swap_remove(s, Head(closed)),
                             [j \in 1..(Len(closed) - 1) |-> closed[j + 1]])

\* for c in closed.iter().rev() { sender_array.swap_remove(*c); }
RECURSIVE RemoveClosed(_, _)
RemoveClosed(s, closed) ==
  IF closed = <<>> THEN s
  ELSE RemoveClosed(swap_remove(s, closed[Len(closed)]),
                    SubSeq(closed, 1, Len(closed) - 1))

Range(s) == {s[i] : i \in 1..Len(s)}

\* Spinner::send_status_event(cur), the end of both handlers
SpinBroadcast ==
  /\ spinPc = "bcast"
  /\ chan' = [c \in Channels |->
                IF c \in Range(status_event_senders) /\ TrySend(c) = "Ok"
                  THEN [chan[c] EXCEPT !.q = Append(@, cur)]
                  ELSE chan[c]]
  /\ status_event_senders' =
       RemoveClosed(status_event_senders, ClosedIdx(status_event_senders, 1))
  /\ spinPc' = "select"
  /\ cur' = NoEvent
  /\ UNCHANGED <<nodeVars, mapVars, stopQ, stop_spin_receiver, ddsEnded,
                 spinRet, ctxVars, taskVars, actVars>>

\* A variant of the stop branch that takes the message and keeps looping.
SpinStopContinue ==
  /\ spinPc = "select"
  /\ stopQ > 0 \/ stop_spin_sender = "dropped"
  /\ stopQ' = IF stopQ > 0 THEN stopQ - 1 ELSE stopQ
  /\ UNCHANGED <<spinPc, spinRet, stop_spin_receiver>>
  /\ UNCHANGED <<nodeVars, mapVars, lsnVars, cur, ddsEnded, ctxVars, taskVars, actVars>>

\* The stop branch of the select: recv() resolves with the stop message, or
\* with an error once the sender is gone; `_ =` takes both, the loop is
\* left and spin returns Ok(()).
SpinStop ==
  /\ spinPc = "select"
  /\ stopQ > 0 \/ stop_spin_sender = "dropped"
  /\ stopQ' = IF stopQ > 0 THEN stopQ - 1 ELSE stopQ
  /\ spinPc' = "done"
  /\ spinRet' = "Ok"
  /\ stop_spin_receiver' = "dropped"
  /\ UNCHANGED <<nodeVars, mapVars, lsnVars, cur, ddsEnded, ctxVars, taskVars, actVars>>

\* A variant in which the end of the status stream leaves the loop.
SpinDdsEndBreaks ==
  /\ spinPc = "select"
  /\ ~ddsEnded
  /\ ddsEnded' = TRUE
  /\ spinPc' = "done"
  /\ spinRet' = "Ok"
  /\ stop_spin_receiver' = "dropped"
  /\ UNCHANGED <<nodeVars, mapVars, lsnVars, cur, stopQ, ctxVars, taskVars, actVars>>

\* dds_status_stream.select_next_some() on a stream that has ended: the
\* future stays pending and reports itself terminated, so the select goes on
\* with its other branches. No branch of the loop leaves it here.
SpinDdsEnd ==
  /\ spinPc = "select"
  /\ ~ddsEnded
  /\ ddsEnded' = TRUE
  /\ UNCHANGED <<nodeVars, mapVars, lsnVars, spinPc, cur, stopQ,
                 stop_spin_receiver, spinRet, ctxVars, taskVars, actVars>>

\* ------------------------------------------------- Node: status listeners

HasFreshChan == \E c \in Channels : chan[c].st = "unused"
FreshChan ==
  CHOOSE c \in Channels :
    chan[c].st = "unused" /\ \A d \in Channels : d < c => chan[d].st # "unused"

TaskOwned(c) == \E t \in Tasks : taskPc[t] # "idle" /\ taskChan[t] = c

\* Node::status_receiver: a new bounded channel, its sender pushed to the list
status_receiver ==
  /\ HasFreshChan
  /\ chan' = [chan EXCEPT ![FreshChan].st = "open"]
  /\ status_event_senders' = Append(status_event_senders, FreshChan)

\* status_receiver called by the application, which keeps the Receiver
UserStatusReceiver ==
  /\ nodePc = "alive"
  /\ status_receiver
  /\ UNCHANGED <<nodeVars, mapVars, spinVars, ctxVars, taskVars, actVars>>

\* Receiver::recv on a channel the application holds
UserRecv(c) ==
  /\ chan[c].st = "open" /\ ~TaskOwned(c)
  /\ chan[c].q # <<>>
  /\ chan' = [chan EXCEPT ![c].q = Tail(@)]
  /\ UNCHANGED <<nodeVars, mapVars, status_event_senders, spinVars, ctxVars,
                 taskVars, actVars>>

\* A Receiver is dropped: the channel is closed. What was queued can no
\* longer be received, and try_send reports Closed whatever the queue holds,
\* so the queue of a closed channel is kept empty.
Closed == [st |-> "closed", q |-> <<>>]

\* the application drops its Receiver
UserDropReceiver(c) ==
  /\ chan[c].st = "open" /\ ~TaskOwned(c)
  /\ chan' = [chan EXCEPT ![c] = Closed]
  /\ UNCHANGED <<nodeVars, mapVars, status_event_senders, spinVars, ctxVars,
                 taskVars, actVars>>

\* --------------------- Node::get_publisher_count / get_subscription_count

\* A variant that tells only whether the endpoint has an entry.
CountKnown(m, guid) == IF guid \in DOMAIN m THEN 1 ELSE 0

\* .get(&guid).map(BTreeSet::len).unwrap_or_else(|| 0)
Count(m, guid) == IF guid \in DOMAIN m THEN Cardinality(m[guid]) ELSE 0

get_publisher_count(subscription_guid) ==
  Count(readers_to_remote_writers, subscription_guid)

get_subscription_count(publisher_guid) ==
  Count(writers_to_remote_readers, publisher_guid)

\* ------------------------------- Node::wait_for_writer / wait_for_reader

\* The order of the two statements before the waiting loop.
WaitOrderSampleFirst == <<"sample", "register">>
WaitOrder == <<"register", "sample">>

PcOf(step) == IF WaitOrder[1] = step THEN "s1" ELSE "s2"
PcAfter(step, present) ==
  IF WaitOrder[1] = step THEN "s2"
  ELSE IF present THEN "done" ELSE "waiting"

\* .get(&guid).map(|s| !s.is_empty()).unwrap_or(false)
already_present(kind, guid) ==
  LET m == IF kind = "writer" THEN readers_to_remote_writers
           ELSE writers_to_remote_readers
  IN  guid \in DOMAIN m /\ m[guid] # {}

\* A variant of the test of the waiting loop that takes a match of any
\* local endpoint.
IsMatchOfAny(kind, guid, e) ==
  e.kind = (IF kind = "writer" THEN "RemoteWriterMatched" ELSE "RemoteReaderMatched")

\* The test of the waiting loop: the event is a RemoteWriterMatched
\* (RemoteReaderMatched) whose local endpoint is the one waited for.
IsMatchFor(kind, guid, e) ==
  /\ e.kind = (IF kind = "writer" THEN "RemoteWriterMatched" ELSE "RemoteReaderMatched")
  /\ e.local = guid

\* the call: wait_for_writer(guid) or wait_for_reader(guid)
WaitCall(t, kind, guid) ==
  /\ nodePc = "alive"
  /\ taskPc[t] = "idle"
  /\ taskPc' = [taskPc EXCEPT ![t] = "s1"]
  /\ taskKind' = [taskKind EXCEPT ![t] = kind]
  /\ taskArg' = [taskArg EXCEPT ![t] = guid]
  /\ UNCHANGED <<taskChan, taskPresent>>
  /\ UNCHANGED <<nodeVars, mapVars, lsnVars, spinVars, ctxVars, actVars>>

\* let status_receiver = self.status_receiver();
WaitRegister(t) ==
  /\ taskPc[t] = PcOf("register")
  /\ HasFreshChan
  /\ LET c == FreshChan
         next == PcAfter("register", taskPresent[t])
     IN  /\ status_event_senders' = Append(status_event_senders, c)
         /\ chan' = [chan EXCEPT ![c] = IF next = "done" THEN Closed
                                         ELSE [st |-> "open", q |-> <<>>]]
         /\ taskChan' = [taskChan EXCEPT ![t] = c]
         /\ taskPc' = [taskPc EXCEPT ![t] = next]
  /\ UNCHANGED <<taskKind, taskArg, taskPresent>>
  /\ UNCHANGED <<nodeVars, mapVars, spinVars, ctxVars, actVars>>

\* let already_present = ...; when it is true the function returns and its
\* Receiver is dropped
WaitSample(t) ==
  /\ taskPc[t] = PcOf("sample")
  /\ LET p == already_present(taskKind[t], taskArg[t])
         next == PcAfter("sample", p)
     IN  /\ taskPresent' = [taskPresent EXCEPT ![t] = p]
         /\ taskPc' = [taskPc EXCEPT ![t] = next]
         /\ chan' = IF next = "done"
                      THEN [chan EXCEPT ![taskChan[t]] = Closed]
                      ELSE chan
  /\ UNCHANGED <<taskKind, taskArg, taskChan, status_event_senders>>
  /\ UNCHANGED <<nodeVars, mapVars, spinVars, ctxVars, actVars>>

\* one turn of the waiting loop: an event is received and tested
WaitRecv(t) ==
  /\ taskPc[t] = "waiting"
  /\ chan[taskChan[t]].q # <<>>
  /\ LET c == taskChan[t]
         e == Head(chan[c].q)
         hit == IsMatchFor(taskKind[t], taskArg[t], e)
     IN  /\ chan' = [chan EXCEPT ![c] = IF hit THEN Closed
                                         ELSE [st |-> "open", q |-> Tail(@.q)]]
         /\ taskPc' = [taskPc EXCEPT ![t] = IF hit THEN "done" ELSE "waiting"]
  /\ UNCHANGED <<taskKind, taskArg, taskChan, taskPresent, status_event_senders>>
  /\ UNCHANGED <<nodeVars, mapVars, spinVars, ctxVars, actVars>>

\* wait_for_writer / wait_for_reader returned: its Receiver is gone, the
\* task may call again
WaitReturn(t) ==
  /\ taskPc[t] = "done"
  /\ taskPc' = [taskPc EXCEPT ![t] = "idle"]
  /\ UNCHANGED <<taskKind, taskArg, taskChan, taskPresent>>
  /\ UNCHANGED <<nodeVars, mapVars, lsnVars, spinVars, ctxVars, actVars>>

\* ----------------------------------------------------- Node: graph, drop

\* Context::update_node: the registry entry of the node is replaced and the
\* aggregate ParticipantEntitiesInfo is published
update_node(info) ==
  /\ ctxNodes' = ctxNodes \cup {info.name}
  /\ graphPubs' = Append(graphPubs, ctxNodes \cup {info.name})
  /\ ctxInfo' = info

\* Context::remove_node: the entry is removed and the aggregate published
remove_node(name) ==
  /\ ctxNodes' = ctxNodes \ {name}
  /\ graphPubs' = Append(graphPubs, ctxNodes \ {name})
  /\ ctxInfo' = NoInfo

ParameterEventsWriter == "pew"   \* Gid of parameter_events_writer
RosoutWriter == "row"            \* Gid of rosout_writer

\* A variant that lists the rosout writer whatever the option says.
generate_node_info_rosout(rs, ws) ==
  [name |-> NodeName, readers |-> rs,
   writers |-> {ParameterEventsWriter, RosoutWriter} \cup ws]

\* Node::generate_node_info over the sets rs and ws of readers and writers
generate_node_info(rs, ws) ==
  [name |-> NodeName, readers |-> rs,
   writers |-> {ParameterEventsWriter}
                 \cup (IF rosout_writer THEN {RosoutWriter} ELSE {}) \cup ws]

\* Node::add_reader, called by create_subscription
NodeAddReader(g) ==
  /\ nodePc = "alive"
  /\ g \notin readers
  /\ readers' = readers \cup {g}
  /\ update_node(generate_node_info(readers \cup {g}, writers))
  /\ UNCHANGED <<rosout_writer, writers, stop_spin_sender, nodePc, builtins, mapVars, lsnVars,
                 spinVars, taskVars, actVars>>

\* A variant of add_writer that records the Gid in both sets.
NodeAddWriterBoth(g) ==
  /\ nodePc = "alive"
  /\ g \notin writers
  /\ writers' = writers \cup {g}
  /\ readers' = readers \cup {g}
  /\ update_node(generate_node_info(readers \cup {g}, writers \cup {g}))
  /\ UNCHANGED <<rosout_writer, stop_spin_sender, nodePc, builtins, mapVars, lsnVars,
                 spinVars, taskVars, actVars>>

\* Node::add_writer, called by create_publisher
NodeAddWriter(g) ==
  /\ nodePc = "alive"
  /\ g \notin writers
  /\ writers' = writers \cup {g}
  /\ update_node(generate_node_info(readers, writers \cup {g}))
  /\ UNCHANGED <<rosout_writer, readers, stop_spin_sender, nodePc, builtins, mapVars, lsnVars,
                 spinVars, taskVars, actVars>>

\* create_subscription / create_publisher when the Context returns an error:
\* the `?` returns it before add_reader / add_writer
NodeCreateErr ==
  /\ nodePc = "alive"
  /\ UNCHANGED <<nodeVars, mapVars, lsnVars, spinVars, ctxVars, taskVars, actVars>>

NoCallRunning == \A t \in Tasks : taskPc[t] \in {"idle", "done"}

\* async_channel::Sender::try_send on the stop channel
StopTrySend ==
  IF stop_spin_receiver = "dropped" THEN "Closed"
  ELSE IF stopQ >= StopCap THEN "Full"
  ELSE "Ok"

\* drop, first statement: try_send(()) when a spinner was created; an error
\* is logged and otherwise ignored
NodeDropSignal ==
  /\ nodePc = "alive"
  /\ NoCallRunning
  /\ nodePc' = "signalled"
  /\ stopQ' = IF stop_spin_sender = "held" /\ StopTrySend = "Ok"
                THEN stopQ + 1 ELSE stopQ
  /\ UNCHANGED <<readers, writers, stop_spin_sender, builtins, mapVars, lsnVars,
                 spinPc, cur, stop_spin_receiver, ddsEnded, spinRet, ctxVars,
                 taskVars, actVars>>

\* A variant of the second statement that releases without remove_node.
NodeDropRemoveNodeSkipped ==
  /\ nodePc = "signalled"
  /\ nodePc' = "removed"
  /\ UNCHANGED <<readers, writers, stop_spin_sender, builtins, mapVars, lsnVars,
                 spinVars, ctxVars, taskVars, actVars>>

\* drop, second statement: ros_context.remove_node(fully_qualified_name)
NodeDropRemoveNode ==
  /\ nodePc = "signalled"
  /\ nodePc' = "removed"
  /\ remove_node(NodeName)
  /\ UNCHANGED <<rosout_writer, readers, writers, stop_spin_sender, builtins, mapVars, lsnVars,
                 spinVars, taskVars, actVars>>

\* after drop() returns the fields are dropped: the rosout and
\* parameter_events endpoints are released, and the stop sender with them
NodeDropFields ==
  /\ nodePc = "removed"
  /\ nodePc' = "dropped"
  /\ builtins' = FALSE
  /\ stop_spin_sender' = IF stop_spin_sender = "held" THEN "dropped"
                         ELSE stop_spin_sender
  /\ UNCHANGED <<readers, writers, mapVars, lsnVars, spinVars, ctxVars,
                 taskVars, actVars>>

\* ------------------------------------------ ActionClient, AsyncActionServer

GoalIds == {"g1", "g2"}
GoalPayloads == {"x", "y"}
\* NewGoalHandles made by another AsyncActionServer of the same action type:
\* for a goal this server never saw, and for a goal id that both servers saw
ForeignHandles == {[goal_id |-> "g3", req_id |-> 0], [goal_id |-> "g1", req_id |-> 0]}

nodeSide == <<nodeVars, mapVars, lsnVars, spinVars, ctxVars, taskVars>>
notSrvVars == <<nodeSide, cliVars>>

\* ActionClient::send_goal: the goal id is UUID::new_random(), the request id
\* is fresh; the request travels to the goal server.
ClientSendGoal(gid, goal) ==
  /\ nextReq <= MaxRequests
  /\ goalReqs' = Append(goalReqs, [req_id |-> nextReq, goal_id |-> gid,
                                   goal |-> goal])
  /\ nextReq' = nextReq + 1
  /\ UNCHANGED <<goals, newHandles, acceptedHandles, goalResponses,
                 statusPubs, srvPc, discarded, lastOp, notSrvVars>>

\* receive_new_goal is called: it holds the server (&mut self) until it returns
ReceiveNewGoalCall ==
  /\ srvPc = "idle"
  /\ srvPc' = "receiving"
  /\ UNCHANGED <<goalReqs, goals, newHandles, acceptedHandles, goalResponses,
                 statusPubs, nextReq, discarded, lastOp, notSrvVars>>

\* A variant that takes every entry for vacant.
IsVacantAlways(gid) == TRUE

\* self.goals.entry(goal_id) is Entry::Vacant
IsVacant(gid) == gid \notin DOMAIN goals

\* One turn of the loop of receive_new_goal: a request is taken; a new goal id
\* is recorded as Unknown with its goal and the handle is returned, a known
\* one is logged and the loop goes on.
ReceiveNewGoalPoll ==
  /\ srvPc = "receiving"
  /\ goalReqs # <<>>
  /\ LET r == Head(goalReqs)
         h == [goal_id |-> r.goal_id, req_id |-> r.req_id]
     IN  /\ goalReqs' = Tail(goalReqs)
         /\ IF IsVacant(r.goal_id)
              THEN /\ goals' = [g \in DOMAIN goals \cup {r.goal_id} |->
                                  IF g = r.goal_id
                                    THEN [status |-> "Unknown", goal |-> r.goal]
                                    ELSE goals[g]]
                   /\ newHandles' = newHandles \cup {h}
                   /\ srvPc' = "idle"
                   /\ lastOp' = [op |-> "receive_new_goal", goal_id |-> r.goal_id,
                                 req_id |-> r.req_id, pre |-> "-",
                                 ret |-> "NewGoalHandle"]
                   /\ UNCHANGED discarded
              ELSE /\ discarded' = discarded \cup {r.req_id}
                   /\ UNCHANGED <<goals, newHandles, srvPc, lastOp>>
  /\ UNCHANGED <<acceptedHandles, goalResponses, statusPubs, nextReq, notSrvVars>>

\* async_receive_request().await? fails: receive_new_goal returns the error
ReceiveNewGoalErr ==
  /\ srvPc = "receiving"
  /\ srvPc' = "idle"
  /\ lastOp' = [op |-> "receive_new_goal", goal_id |-> "-", req_id |-> 0,
                pre |-> "-", ret |-> "Err"]
  /\ UNCHANGED <<goalReqs, goals, newHandles, acceptedHandles, goalResponses,
                 statusPubs, nextReq, discarded, notSrvVars>>

StatusOf(gid) == IF gid \in DOMAIN goals THEN goals[gid].status ELSE "none"

\* A variant in which the caller keeps a copy of the handle.
MovedCloned(handles, h) == handles

\* `handle: NewGoalHandle<..>` is taken by value: the caller has it no more
Moved(handles, h) == handles \ {h}

\* A variant of the match on the record that takes every status.
IsUnknownAlways(gid) == TRUE

\* the arm (GoalStatusEnum::Unknown, _goal) of the match on the record
IsUnknown(gid) == goals[gid].status = "Unknown"

\* A variant that writes the status after Accepted.
StatusOnAcceptExecuting == "Executing"

\* o.into_mut().0 = GoalStatusEnum::Accepted
StatusOnAccept == "Accepted"

\* publish_statuses is todo!(): the call panics
publish_statuses == "panic"

\* accept_goal(handle); the handle is moved into the call
AcceptGoal(h) ==
  /\ srvPc = "idle"
  /\ h \in newHandles \cup ForeignHandles
  /\ newHandles' = Moved(newHandles, h)
  /\ IF h.goal_id \notin DOMAIN goals
       THEN /\ lastOp' = [op |-> "accept_goal", goal_id |-> h.goal_id,
                          req_id |-> h.req_id, pre |-> "none",
                          ret |-> "NoSuchGoal"]
            /\ UNCHANGED <<goals, srvPc, statusPubs, goalResponses, acceptedHandles>>
       ELSE IF ~IsUnknown(h.goal_id)
       THEN /\ lastOp' = [op |-> "accept_goal", goal_id |-> h.goal_id,
                          req_id |-> h.req_id, pre |-> goals[h.goal_id].status,
                          ret |-> "WrongGoalState"]
            /\ UNCHANGED <<goals, srvPc, statusPubs, goalResponses, acceptedHandles>>
       ELSE /\ goals' = [goals EXCEPT ![h.goal_id].status = StatusOnAccept]
            /\ IF publish_statuses = "panic"
                 THEN /\ srvPc' = "panicked"
                      /\ lastOp' = [op |-> "accept_goal", goal_id |-> h.goal_id,
                                    req_id |-> h.req_id, pre |-> "Unknown",
                                    ret |-> "panic"]
                      /\ UNCHANGED <<statusPubs, goalResponses, acceptedHandles>>
                 ELSE /\ statusPubs' = Append(statusPubs,
                                         [g \in DOMAIN goals' |-> goals'[g].status])
                      /\ \E sent \in BOOLEAN :
                           IF sent
                             THEN /\ goalResponses' = goalResponses \cup
                                       {[req_id |-> h.req_id, accepted |-> TRUE]}
                                  /\ acceptedHandles' = acceptedHandles \cup
                                       {[goal_id |-> h.goal_id]}
                                  /\ lastOp' = [op |-> "accept_goal",
                                                goal_id |-> h.goal_id,
                                                req_id |-> h.req_id,
                                                pre |-> "Unknown",
                                                ret |-> "AcceptedGoalHandle"]
                             ELSE /\ lastOp' = [op |-> "accept_goal",
                                                goal_id |-> h.goal_id,
                                                req_id |-> h.req_id,
                                                pre |-> "Unknown",
                                                ret |-> "DDSError"]
                                  /\ UNCHANGED <<goalResponses, acceptedHandles>>
                      /\ UNCHANGED srvPc
  /\ UNCHANGED <<goalReqs, nextReq, discarded, notSrvVars>>

\* The panic unwinds out of accept_goal and is caught by the caller or by its
\* executor; the server value is as the call left it and can be used again.
SrvCatchUnwind ==
  /\ srvPc = "panicked"
  /\ srvPc' = "idle"
  /\ UNCHANGED <<goalReqs, goals, newHandles, acceptedHandles, goalResponses,
                 statusPubs, nextReq, discarded, lastOp, notSrvVars>>

\* A variant that answers accepted: true.
RejectResponseAccepted(h) == [req_id |-> h.req_id, accepted |-> TRUE]

\* send_response(handle.req_id, SendGoalResponse{accepted: false, ..})
RejectResponse(h) == [req_id |-> h.req_id, accepted |-> FALSE]

\* reject_goal(handle): for a goal that is Unknown the response accepted:
\* false is sent; the record stays as it is
RejectGoal(h) ==
  /\ srvPc = "idle"
  /\ h \in newHandles \cup ForeignHandles
  /\ newHandles' = Moved(newHandles, h)
  /\ IF h.goal_id \notin DOMAIN goals
       THEN /\ lastOp' = [op |-> "reject_goal", goal_id |-> h.goal_id,
                          req_id |-> h.req_id, pre |-> "none",
                          ret |-> "NoSuchGoal"]
            /\ UNCHANGED goalResponses
       ELSE IF ~IsUnknown(h.goal_id)
       THEN /\ lastOp' = [op |-> "reject_goal", goal_id |-> h.goal_id,
                          req_id |-> h.req_id, pre |-> goals[h.goal_id].status,
                          ret |-> "WrongGoalState"]
            /\ UNCHANGED goalResponses
       ELSE \E sent \in BOOLEAN :
              /\ goalResponses' = IF sent
                   THEN goalResponses \cup {RejectResponse(h)}
                   ELSE goalResponses
              /\ lastOp' = [op |-> "reject_goal", goal_id |-> h.goal_id,
                            req_id |-> h.req_id, pre |-> "Unknown",
                            ret |-> IF sent THEN "Ok" ELSE "DDSError"]
  /\ UNCHANGED <<goalReqs, goals, acceptedHandles, statusPubs, srvPc, nextReq,
                 discarded, notSrvVars>>

\* ------------------------------------------------- cancel requests

GoalIdZero == "g0"     \* GoalId::ZERO
TimeZero == 0          \* Time::ZERO
Times == TimeZero..MaxTime
CancelOps == {"cancel_goal", "cancel_all_goals_before", "cancel_all_goals",
              "async_cancel_goal"}

\* The calls the client can make: the operations take a goal id, a time, both
\* or neither; an argument an operation does not take is written as zero.
CancelCalls ==
  {<<"cancel_goal", g, TimeZero>> : g \in GoalIds}
    \cup {<<"cancel_all_goals_before", GoalIdZero, t>> : t \in Times}
    \cup {<<"cancel_all_goals", GoalIdZero, TimeZero>>}
    \cup {<<"async_cancel_goal", g, t>> : g \in GoalIds, t \in Times}

srvState == <<goalReqs, goals, newHandles, acceptedHandles, goalResponses,
              statusPubs, srvPc, discarded, lastOp>>

\* time passes
Tick ==
  /\ now < MaxTime
  /\ now' = now + 1
  /\ UNCHANGED <<srvState, nextReq, cancelReqs, cancelYield, lastCli, rcvVars, nodeSide>>

\* A variant in which cancel_all_goals_before passes Time::ZERO.
CancelGoalInfoNoStamp(op, g, t) ==
  CASE op = "cancel_goal" -> [goal_id |-> g, stamp |-> TimeZero]
    [] op = "cancel_all_goals_before" -> [goal_id |-> GoalIdZero, stamp |-> TimeZero]
    [] op = "cancel_all_goals" -> [goal_id |-> GoalIdZero, stamp |-> TimeZero]
    [] op = "async_cancel_goal" -> [goal_id |-> g, stamp |-> t]

\* The GoalInfo each cancel operation of the client builds: cancel_goal,
\* cancel_all_goals_before and cancel_all_goals through cancel_goal_raw,
\* async_cancel_goal by itself.
CancelGoalInfo(op, g, t) ==
  CASE op = "cancel_goal" -> [goal_id |-> g, stamp |-> TimeZero]
    [] op = "cancel_all_goals_before" -> [goal_id |-> GoalIdZero, stamp |-> t]
    [] op = "cancel_all_goals" -> [goal_id |-> GoalIdZero, stamp |-> TimeZero]
    [] op = "async_cancel_goal" -> [goal_id |-> g, stamp |-> t]

\* A cancel operation of the client: my_cancel_client sends the request and
\* returns its id, or fails and sends nothing. (async_cancel_goal up to the
\* sending of the request.)
ClientCancel(op, g, t) ==
  /\ nextReq <= MaxRequests
  /\ \E sent \in BOOLEAN :
       IF sent
         THEN /\ cancelReqs' = Append(cancelReqs,
                   [req_id |-> nextReq, goal_info |-> CancelGoalInfo(op, g, t)])
              /\ nextReq' = nextReq + 1
              /\ lastCli' = [op |-> op, goal_id |-> g, stamp |-> t, ret |-> nextReq]
         ELSE /\ lastCli' = [op |-> op, goal_id |-> g, stamp |-> t, ret |-> 0]
              /\ UNCHANGED <<cancelReqs, nextReq>>
  /\ UNCHANGED <<srvState, now, cancelYield, rcvVars, nodeSide>>

\* receive_cancel_request: Ok(vec![]) whatever was sent to the server; the
\* requests are not read. The record of the call notes the request that was
\* first in line.
ReceiveCancelRequest ==
  /\ srvPc = "idle"
  /\ cancelYield' = {}
  /\ lastOp' = [op |-> "receive_cancel_request", goal_id |-> "-",
                req_id |-> IF cancelReqs = <<>> THEN 0 ELSE Head(cancelReqs).req_id,
                pre |-> "-", ret |-> "Ok"]
  /\ UNCHANGED <<goalReqs, goals, newHandles, acceptedHandles, goalResponses,
                 statusPubs, srvPc, discarded, nextReq, now, cancelReqs, lastCli, rcvVars,
                 nodeSide>>

\* respond_to_cancel_requests(goals) is todo!(): the call panics
RespondToCancelRequests(ids) ==
  /\ srvPc = "idle"
  /\ srvPc' = "panicked"
  /\ lastOp' = [op |-> "respond_to_cancel_requests", goal_id |-> "-",
                req_id |-> 0, pre |-> "-", ret |-> "panic"]
  /\ UNCHANGED <<goalReqs, goals, newHandles, acceptedHandles, goalResponses,
                 statusPubs, discarded, nextReq, notSrvVars>>

\* ------------------------------------------------ poll-style receives

ReplyIds == 1..2
ReplyVals == {"a", "b"}
\* what one call of receive_response() can find in the queue: a reply with the
\* id of its request, or a sample whose reading fails
Replies ==
  [err : {FALSE}, req_id : ReplyIds, val : ReplyVals]
    \cup {[err |-> TRUE, req_id |-> 0, val |-> "-"]}

clientSide == <<now, cancelReqs, cancelYield, lastCli>>

\* a reply (or a sample that cannot be read) arrives at one of the clients
ReplyArrives(op, r) ==
  /\ Len(replyQ["receive_goal_response"]) + Len(replyQ["receive_cancel_response"])
       + Len(replyQ["receive_result"]) < MaxReplies
  /\ replyQ' = [replyQ EXCEPT ![op] = Append(@, r)]
  /\ UNCHANGED <<lastPoll, fbVars, stVars, clientSide, muxVars, srvState, nextReq, nodeSide>>

\* A variant that takes whatever reply comes first.
IsExpectedAny(incoming_req_id, req_id) == TRUE

\* the match guard: incoming_req_id == req_id
IsExpected(incoming_req_id, req_id) == incoming_req_id = req_id

\* A variant of the loop that takes the expected reply out of the queue and
\* leaves the replies to other requests where they are.
RECURSIVE PollLoopKeepsOthers(_, _)
PollLoopKeepsOthers(q, req_id) ==
  IF q = <<>> THEN [ret |-> RetNone, rest |-> <<>>]
  ELSE IF Head(q).err THEN [ret |-> RetErr, rest |-> Tail(q)]
  ELSE IF IsExpected(Head(q).req_id, req_id)
    THEN [ret |-> RetSome(Head(q).val), rest |-> Tail(q)]
  ELSE LET r == PollLoopKeepsOthers(Tail(q), req_id)
       IN  [ret |-> r.ret, rest |-> <<Head(q)>> \o r.rest]

\* The loop of receive_goal_response / receive_cancel_response /
\* receive_result over the queue q: Err breaks with the error, an empty queue
\* with None, the expected reply with Some, any other reply continues.
RECURSIVE PollLoop(_, _)
PollLoop(q, req_id) ==
  IF q = <<>> THEN [ret |-> RetNone, rest |-> <<>>]
  ELSE IF Head(q).err THEN [ret |-> RetErr, rest |-> Tail(q)]
  ELSE IF IsExpected(Head(q).req_id, req_id)
    THEN [ret |-> RetSome(Head(q).val), rest |-> Tail(q)]
  ELSE PollLoop(Tail(q), req_id)

PollReceive(op, req_id) ==
  LET r == PollLoop(replyQ[op], req_id) IN
  /\ replyQ' = [replyQ EXCEPT ![op] = r.rest]
  /\ lastPoll' = [op |-> op, req_id |-> req_id, ret |-> r.ret,
                  taken |-> Len(replyQ[op]) - Len(r.rest)]
  /\ UNCHANGED <<fbVars, stVars, clientSide, muxVars, srvState, nextReq, nodeSide>>

\* ----------------------------------------------------- feedback stream

FeedbackVals == {"p", "q"}
\* what the feedback subscription can hand to the stream: a FeedbackMessage
\* or a sample whose reading fails
FbSamples ==
  [err : {FALSE}, goal_id : GoalIds, feedback : FeedbackVals]
    \cup {[err |-> TRUE, goal_id |-> "-", feedback |-> "-"]}
ItemErr == [tag |-> "Err", val |-> "-"]
ItemOk(v) == [tag |-> "Ok", val |-> v]

\* a sample reaches the feedback subscription
FeedbackArrives(m) ==
  /\ Len(fbIn) < MaxFeedback
  /\ fbIn' = Append(fbIn, m)
  /\ UNCHANGED <<fbGoal, fbPos, fbOut, pollVars, stVars, clientSide, muxVars, srvState,
                 nextReq, nodeSide>>

\* feedback_stream(goal_id): the cursor over the subscription is created
FeedbackStream(goal_id) ==
  /\ fbGoal = "-"
  /\ fbGoal' = goal_id
  /\ UNCHANGED <<fbIn, fbPos, fbOut, pollVars, stVars, clientSide, muxVars, srvState,
                 nextReq, nodeSide>>

\* A variant without the test of the goal id.
FeedbackItemAnyGoal(m, expected_goal_id) ==
  IF m.err THEN <<ItemErr>> ELSE <<ItemOk(m.feedback)>>

\* the closure of filter_map: what one sample adds to the output
FeedbackItem(m, expected_goal_id) ==
  IF m.err THEN <<ItemErr>>
  ELSE IF m.goal_id = expected_goal_id THEN <<ItemOk(m.feedback)>>
  ELSE <<>>

\* the stream is polled and takes the next sample of the subscription
FeedbackStreamNext ==
  /\ fbGoal # "-"
  /\ fbPos < Len(fbIn)
  /\ fbPos' = fbPos + 1
  /\ fbOut' = fbOut \o FeedbackItem(fbIn[fbPos + 1], fbGoal)
  /\ UNCHANGED <<fbIn, fbGoal, pollVars, stVars, clientSide, muxVars, srvState, nextReq,
                 nodeSide>>

\* ------------------------------------------------------- status stream

\* the entries of a GoalStatusArray and the arrays of up to two entries
StatusEntries == [goal_id : GoalIds, status : {"Accepted", "Executing"}]
StatusLists ==
  {<<>>} \cup {<<e>> : e \in StatusEntries}
    \cup {<<e, f>> : e \in StatusEntries, f \in StatusEntries}
\* what the status subscription can hand to the stream: a GoalStatusArray or
\* a sample whose reading fails
StSamples ==
  [err : {FALSE}, status_list : StatusLists]
    \cup {[err |-> TRUE, status_list |-> <<>>]}

\* a sample reaches the status subscription
StatusArrives(m) ==
  /\ Len(stIn) < MaxStatusArrays
  /\ stIn' = Append(stIn, m)
  /\ UNCHANGED <<stGoal, stPos, stOut, pollVars, fbVars, clientSide, muxVars, srvState,
                 nextReq, nodeSide>>

\* status_stream(goal_id): the cursor over all_statuses_stream() is created
StatusStream(goal_id) ==
  /\ stGoal = "-"
  /\ stGoal' = goal_id
  /\ UNCHANGED <<stIn, stPos, stOut, pollVars, fbVars, clientSide, muxVars, srvState,
                 nextReq, nodeSide>>

\* A variant that keeps the last entry for the goal.
RECURSIVE FindLast(_, _)
FindLast(status_list, goal_id) ==
  IF status_list = <<>> THEN <<>>
  ELSE IF status_list[Len(status_list)].goal_id = goal_id
    THEN <<status_list[Len(status_list)]>>
  ELSE FindLast(SubSeq(status_list, 1, Len(status_list) - 1), goal_id)

\* status_list.into_iter().find(|gs| gs.goal_info.goal_id == goal_id), as a
\* sequence of no or one entry
RECURSIVE Find(_, _)
Find(status_list, goal_id) ==
  IF status_list = <<>> THEN <<>>
  ELSE IF Head(status_list).goal_id = goal_id THEN <<Head(status_list)>>
  ELSE Find(Tail(status_list), goal_id)

\* the closure of filter_map: what one sample adds to the output
StatusItem(m, goal_id) ==
  IF m.err THEN <<ItemErr>>
  ELSE LET gs == Find(m.status_list, goal_id) IN
       IF gs = <<>> THEN <<>> ELSE <<ItemOk(gs[1])>>

\* the stream is polled and takes the next sample of the subscription
StatusStreamNext ==
  /\ stGoal # "-"
  /\ stPos < Len(stIn)
  /\ stPos' = stPos + 1
  /\ stOut' = stOut \o StatusItem(stIn[stPos + 1], stGoal)
  /\ UNCHANGED <<stIn, stGoal, pollVars, fbVars, clientSide, muxVars, srvState, nextReq,
                 nodeSide>>

\* ------------------------------------- two feedback streams on one client

\* One advance of a cursor of async_stream(): the cursors of a subscription
\* share the queue of the transport, and a sample handed to one cursor is
\* gone for the others.
async_stream_next(q) == [sample |-> Head(q), rest |-> Tail(q)]

\* a sample reaches the feedback subscription
MuxArrives(m) ==
  /\ Len(subArrived) < MaxFeedback
  /\ subArrived' = Append(subArrived, m)
  /\ subQ' = Append(subQ, Len(subArrived) + 1)
  /\ UNCHANGED <<curTook, curOut, pollVars, fbVars, stVars, clientSide, srvState,
                 nextReq, nodeSide>>

\* the stream feedback_stream(goal_id) is polled and takes the next sample
CursorNext(goal_id) ==
  /\ subQ # <<>>
  /\ LET n == async_stream_next(subQ) IN
     /\ subQ' = n.rest
     /\ curTook' = [curTook EXCEPT ![goal_id] = Append(@, n.sample)]
     /\ curOut' = [curOut EXCEPT
                     ![goal_id] = @ \o FeedbackItem(subArrived[n.sample], goal_id)]
  /\ UNCHANGED <<subArrived, pollVars, fbVars, stVars, clientSide, srvState,
                 nextReq, nodeSide>>

\* ---------------------------------------------------------------- history
\* What the properties below speak about and the program does not keep:
\* how many events were consumed and broadcast, which pairs are matched
\* according to the events consumed, the number of each event in a queue.

HistSame == UNCHANGED histVars

\* an event was consumed by the spinner
HistConsume(e) ==
  /\ nConsumed' = nConsumed + 1
  /\ matchedNow' =
       IF e.kind = "RemoteWriterMatched" THEN matchedNow \cup {<<e.local, e.remote>>}
       ELSE IF e.kind = "WriterLost" THEN {p \in matchedNow : p[2] # e.remote}
       ELSE matchedNow
  /\ UNCHANGED <<nBroadcast, qid, regAt, regCons, lastRecv, nRecv, overflow, dropTrace, lastCreate, rosErrAt, guards>>

\* a broadcast was done: the event with number nConsumed went out
HistBroadcast ==
  /\ nBroadcast' = nBroadcast + 1
  /\ qid' = [c \in Channels |->
               IF Len(chan'[c].q) > Len(chan[c].q) THEN Append(qid[c], nConsumed)
               ELSE qid[c]]
  /\ overflow' = [c \in Channels |->
               overflow[c] \/ (c \in Range(status_event_senders) /\ TrySend(c) = "Full")]
  /\ UNCHANGED <<nConsumed, matchedNow, regAt, regCons, lastRecv, nRecv, dropTrace, lastCreate, rosErrAt, guards>>

\* a listener was registered on the channel that was fresh
HistRegister ==
  /\ regAt' = [regAt EXCEPT ![FreshChan] = nBroadcast]
  /\ regCons' = [regCons EXCEPT ![FreshChan] = nConsumed]
  /\ UNCHANGED <<nConsumed, nBroadcast, matchedNow, qid, lastRecv, nRecv, overflow, dropTrace, lastCreate, rosErrAt, guards>>

\* the receiver of channel c took the head of its queue
HistRecv(c) ==
  /\ lastRecv' = [lastRecv EXCEPT ![c] = Head(qid[c])]
  /\ nRecv' = [nRecv EXCEPT ![c] = @ + 1]
  /\ qid' = [qid EXCEPT ![c] = Tail(@)]
  /\ UNCHANGED <<nConsumed, nBroadcast, matchedNow, regAt, regCons, overflow, dropTrace, lastCreate, rosErrAt, guards>>

\* the receiver of channel c is gone: nothing is said about c any more
HistClose(c) ==
  /\ qid' = [qid EXCEPT ![c] = <<>>]
  /\ regAt' = [regAt EXCEPT ![c] = 0]
  /\ regCons' = [regCons EXCEPT ![c] = 0]
  /\ lastRecv' = [lastRecv EXCEPT ![c] = 0]
  /\ nRecv' = [nRecv EXCEPT ![c] = 0]
  /\ overflow' = [overflow EXCEPT ![c] = FALSE]
  /\ UNCHANGED <<nConsumed, nBroadcast, matchedNow, dropTrace, lastCreate, rosErrAt, guards>>

\* a statement of drop ran
HistDrop(what) ==
  /\ dropTrace' = Append(dropTrace, what)
  /\ UNCHANGED <<nConsumed, nBroadcast, matchedNow, qid, regAt, regCons, lastRecv, nRecv, overflow, lastCreate, rosErrAt, guards>>

HistDropSignal ==
  IF stop_spin_sender = "held"
    THEN HistDrop(IF StopTrySend = "Ok" THEN "try_send_ok" ELSE "try_send_err")
    ELSE HistSame

HistWaitRegister(t) == IF taskPc'[t] = "done" THEN HistSame ELSE HistRegister
HistWaitSample(t) == IF taskPc'[t] = "done" THEN HistClose(taskChan[t]) ELSE HistSame
HistWaitRecv(t) ==
  IF taskPc'[t] = "done" THEN HistClose(taskChan[t]) ELSE HistRecv(taskChan[t])

\* the time at which accept_goal wrote Accepted
HistAccept(h) ==
  /\ HistSame
  /\ acceptedAt' =
       IF StatusOf(h.goal_id) = "Unknown"
         THEN [g \in DOMAIN acceptedAt \cup {h.goal_id} |->
                 IF g = h.goal_id THEN now ELSE acceptedAt[g]]
         ELSE acceptedAt

SrvHistSame == HistSame /\ UNCHANGED acceptedAt

\* a create_subscription / create_publisher call returned
HistCreate(op, g, ret) ==
  /\ lastCreate' = [op |-> op, gid |-> g, ret |-> ret]
  /\ UNCHANGED <<nConsumed, nBroadcast, matchedNow, qid, regAt, regCons, lastRecv,
                 nRecv, overflow, dropTrace, rosErrAt, guards>>

\* the graph topic gave an error item
HistRosErr ==
  /\ rosErrAt' = nConsumed
  /\ UNCHANGED <<nConsumed, nBroadcast, matchedNow, qid, regAt, regCons, lastRecv,
                 nRecv, overflow, dropTrace, lastCreate, guards>>

\* ------------------------------------------------------------ mutex guards

\* One step of task h between two of its suspension points: lock() is called
\* on the mutexes of acquired (another holder of one of them blocks the
\* step, the holder itself would deadlock), and the guards of dropped go out
\* of scope before the step ends.
LockStep(h, acquired, dropped, n) ==
  /\ \A m \in acquired : \A o \in Holders : m \notin guards[o]
  /\ guards' = [guards EXCEPT ![h] = (@ \cup acquired) \ dropped]
  /\ nConsumed' = nConsumed + n
  /\ UNCHANGED <<nBroadcast, matchedNow, qid, regAt, regCons, lastRecv, nRecv,
                 overflow, dropTrace, lastCreate, rosErrAt>>

\* The map an arm of the match on a DDS status event locks: the guard is a
\* temporary of the statement (of the for loop, in the two Lost arms).
MapOfArm(e) ==
  IF e.kind \in {"RemoteReaderMatched", "ReaderLost"}
    THEN {"writers_to_remote_readers"}
  ELSE IF e.kind \in {"RemoteWriterMatched", "WriterLost"}
    THEN {"readers_to_remote_writers"}
  ELSE {}

\* the map wait_for_writer (wait_for_reader) samples
MapOfWait(kind) ==
  IF kind = "writer" THEN {"readers_to_remote_writers"}
  ELSE {"writers_to_remote_readers"}

\* let mut info_map = self.external_nodes.lock().unwrap();
InfoMapGuard == {"external_nodes"}

\* let mut sender_array = self.status_event_senders.lock().unwrap();
\* a local of send_status_event (and the temporary of status_receiver)
SenderArrayGuard == {"status_event_senders"}

\* A variant in which info_map outlives the arm that binds it.
ArmEndDropsNothing == {}

\* What goes out of scope where the arm of select! ends, after
\* send_status_event returned: info_map when the Ok arm of the graph topic
\* bound it.
ArmEndDrops == InfoMapGuard

LockDds(e) == LockStep(SpinnerTask, MapOfArm(e), MapOfArm(e), 1)
LockRos == LockStep(SpinnerTask, InfoMapGuard, {}, 1)
LockBroadcast ==
  LockStep(SpinnerTask, SenderArrayGuard, SenderArrayGuard \cup ArmEndDrops, 0)
LockRegister(t) == LockStep(t, SenderArrayGuard, SenderArrayGuard, 0)
LockSample(t) == LockStep(t, MapOfWait(taskKind[t]), MapOfWait(taskKind[t]), 0)
LockNone(h) == LockStep(h, {}, {}, 0)

\* ---- the same steps with lock() as a step of its own

\* lock() on the mutexes ms returned: nothing but the guards changes
LockOnly(h, ms) ==
  /\ ms # {} /\ ms \cap guards[h] = {}
  /\ LockStep(h, ms, {}, 0)
  /\ UNCHANGED <<nodeVars, mapVars, lsnVars, spinVars, ctxVars, taskVars, actVars>>

\* A variant of status_receiver whose guard lives on in the caller.
RegisterDropsNothing == {}

\* the temporary guard of status_receiver goes with its statement
RegisterDrops == SenderArrayGuard

\* the mutex the next statement of wait_for_writer / wait_for_reader locks
TaskNeeds(t) ==
  IF taskPc[t] = PcOf("register") THEN SenderArrayGuard
  ELSE IF taskPc[t] = PcOf("sample") THEN MapOfWait(taskKind[t])
  ELSE {}

\* send_status_event locks the listener list, with info_map still alive
\* when the Ok arm of the graph topic called it
OrdLockSenders == spinPc = "bcast" /\ LockOnly(SpinnerTask, SenderArrayGuard)

OrdBroadcast ==
  /\ SenderArrayGuard \subseteq guards[SpinnerTask]
  /\ SpinBroadcast
  /\ LockStep(SpinnerTask, {}, SenderArrayGuard \cup ArmEndDrops, 0)

OrdTaskLock(t) == TaskNeeds(t) # {} /\ LockOnly(t, TaskNeeds(t) \ guards[t])

OrdRegister(t) ==
  /\ SenderArrayGuard \subseteq guards[t]
  /\ WaitRegister(t)
  /\ LockStep(t, {}, RegisterDrops, 0)

OrdSample(t) ==
  /\ MapOfWait(taskKind[t]) \subseteq guards[t]
  /\ WaitSample(t)
  /\ LockStep(t, {}, MapOfWait(taskKind[t]), 0)

\* get_publisher_count / get_subscription_count: lock() on the map ...
OrdCountLock(kind) ==
  /\ nodePc = "alive" /\ guards[CountTask] = {}
  /\ LockOnly(CountTask, MapOfWait(kind))

\* ... and the count is returned, the temporary guard dropped
OrdCountReturn ==
  /\ guards[CountTask] # {}
  /\ LockStep(CountTask, {}, guards[CountTask], 0)
  /\ UNCHANGED <<nodeVars, mapVars, lsnVars, spinVars, ctxVars, taskVars, actVars>>

\* ------------------------------------------------------------ specifications

DdsEvents ==
  {RWM(r, w) : r \in LocalReaders, w \in RemoteWriters}
    \cup {RRM(w, r) : w \in LocalWriters, r \in RemoteReaders}
    \cup {WriterLost(g) : g \in RemoteWriters}
    \cup {ReaderLost(g) : g \in RemoteReaders}
    \cup {OtherDds}

\* The spinner and the maps, all kinds of events.
NextMaps ==
  \/ NodeSpinner /\ HistSame
  \/ SpinStart /\ HistSame
  \/ \E e \in DdsEvents : nConsumed < MaxEvents /\ SpinDds(e) /\ HistConsume(e)
  \/ \E g \in Gids, s \in NodeSeqs :
       nConsumed < MaxEvents /\ SpinRos(g, s) /\ HistConsume(RosUpdate(g, s))
  \/ SpinBroadcast /\ HistBroadcast

SpecMaps == Init /\ [][NextMaps]_vars

\* The spinner and wait_for_writer / wait_for_reader calls.
WaitEvents ==
  {RWM("r1", "w1"), RWM("r2", "w1"), RRM("lw1", "rr1"), WriterLost("w1"),
   ReaderLost("rr1")}
WaitArgs == {<<"writer", "r1">>, <<"reader", "lw1">>}

TaskStep(t) ==
  \/ \E a \in WaitArgs : WaitCall(t, a[1], a[2]) /\ HistSame
  \/ WaitRegister(t) /\ HistWaitRegister(t)
  \/ WaitSample(t) /\ HistWaitSample(t)
  \/ WaitRecv(t) /\ HistWaitRecv(t)

NextWait ==
  \/ NodeSpinner /\ HistSame
  \/ SpinStart /\ HistSame
  \/ \E e \in WaitEvents : nConsumed < MaxWaitEvents /\ SpinDds(e) /\ HistConsume(e)
  \/ SpinBroadcast /\ HistBroadcast
  \/ \E t \in Tasks : TaskStep(t)

\* What the executor runs when it is ready: the handler the spinner began,
\* the steps of the calls that were made.
WaitProgress ==
  \/ SpinBroadcast /\ HistBroadcast
  \/ \E t \in Tasks :
       \/ WaitRegister(t) /\ HistWaitRegister(t)
       \/ WaitSample(t) /\ HistWaitSample(t)
       \/ WaitRecv(t) /\ HistWaitRecv(t)

\* A task that is ready is run at last.
SpecWait == Init /\ [][NextWait]_vars /\ WF_vars(WaitProgress)

\* The spinner with both streams and the wait_for_writer / wait_for_reader
\* calls, with the guards each step takes and drops.
LockEvents == {RWM("r1", "w1"), RRM("lw1", "rr1"), WriterLost("w1"), OtherDds}
LockUpdates == {<<"p1", "nA">>}

LockTaskStep(t) ==
  \/ \E a \in WaitArgs : WaitCall(t, a[1], a[2]) /\ LockNone(t)
  \/ WaitRegister(t) /\ LockRegister(t)
  \/ WaitSample(t) /\ LockSample(t)
  \/ WaitRecv(t) /\ LockNone(t)

NextLocks ==
  \/ NodeSpinner /\ LockNone(SpinnerTask)
  \/ SpinStart /\ LockNone(SpinnerTask)
  \/ \E e \in LockEvents : nConsumed < MaxWaitEvents /\ SpinDds(e) /\ LockDds(e)
  \/ \E u \in LockUpdates :
       nConsumed < MaxWaitEvents /\ SpinRos(u[1], u[2]) /\ LockRos
  \/ SpinRosErr /\ HistRosErr
  \/ SpinBroadcast /\ LockBroadcast
  \/ \E t \in Tasks : LockTaskStep(t)

SpecLocks == Init /\ [][NextLocks]_vars

\* A wait_for_writer / wait_for_reader call that is not scheduled while the
\* spinner broadcasts more events than the channel of its listener holds.
FullEvents == {OtherDds, RWM("r1", "w1")}

NextWaitFull ==
  \/ NodeSpinner /\ HistSame
  \/ SpinStart /\ HistSame
  \/ \E e \in FullEvents : nConsumed < MaxFanEvents /\ SpinDds(e) /\ HistConsume(e)
  \/ SpinBroadcast /\ HistBroadcast
  \/ \E t \in Tasks : TaskStep(t)

SpecWaitFull == Init /\ [][NextWaitFull]_vars /\ WF_vars(WaitProgress)

\* Calls of wait_for_writer / wait_for_reader one after the other, with and
\* without a spinner that broadcasts.
CallEvents == {RWM("r1", "w1"), OtherDds}

NextCalls ==
  \/ NodeSpinner /\ HistSame
  \/ SpinStart /\ HistSame
  \/ \E e \in CallEvents : nConsumed < MaxWaitEvents /\ SpinDds(e) /\ HistConsume(e)
  \/ SpinBroadcast /\ HistBroadcast
  \/ \E t \in Tasks : TaskStep(t)
  \/ \E t \in Tasks : WaitReturn(t) /\ HistSame

SpecCalls == Init /\ [][NextCalls]_vars

\* The spinner, the calls and the counts on threads of their own: a thread
\* may be stopped between any two of its lock() calls.
OrdTaskStep(t) ==
  \/ \E a \in WaitArgs : WaitCall(t, a[1], a[2]) /\ LockNone(t)
  \/ OrdTaskLock(t)
  \/ OrdRegister(t)
  \/ OrdSample(t)
  \/ WaitRecv(t) /\ LockNone(t)

NextLockOrder ==
  \/ NodeSpinner /\ LockNone(SpinnerTask)
  \/ SpinStart /\ LockNone(SpinnerTask)
  \/ \E e \in LockEvents : nConsumed < MaxWaitEvents /\ SpinDds(e) /\ LockDds(e)
  \/ \E u \in LockUpdates :
       nConsumed < MaxWaitEvents /\ SpinRos(u[1], u[2]) /\ LockRos
  \/ OrdLockSenders
  \/ OrdBroadcast
  \/ \E t \in Tasks : OrdTaskStep(t)
  \/ \E kind \in {"writer", "reader"} : OrdCountLock(kind)
  \/ OrdCountReturn

SpecLockOrder == Init /\ [][NextLockOrder]_vars

\* The spinner and listeners of the application: some drain, some stall,
\* some are dropped.
NextFan ==
  \/ NodeSpinner /\ HistSame
  \/ SpinStart /\ HistSame
  \/ nConsumed < MaxFanEvents /\ SpinDds(OtherDds) /\ HistConsume(OtherDds)
  \/ SpinBroadcast /\ HistBroadcast
  \/ /\ Cardinality({c \in Channels : chan[c].st # "unused"}) < MaxFanListeners
     /\ UserStatusReceiver /\ HistRegister
  \/ \E c \in Channels : UserRecv(c) /\ HistRecv(c)
  \/ \E c \in Channels : UserDropReceiver(c) /\ HistClose(c)

SpecFan == Init /\ [][NextFan]_vars

\* The life of the Node and of its spinner. Events are not counted here, so
\* that they can arrive for ever.
NextLife ==
  \/ NodeSpinner /\ HistCreate("spinner", "-", "Ok")
  \/ NodeSpinnerPanic /\ HistCreate("spinner", "-", "panic")
  \/ SpinStart /\ HistSame
  \/ SpinDds(OtherDds) /\ HistSame
  \/ SpinRos("p1", "nA") /\ HistSame
  \/ SpinRosErr /\ HistSame
  \/ SpinDdsEnd /\ HistSame
  \/ SpinBroadcast /\ HistSame
  \/ SpinStop /\ HistSame
  \/ NodeAddReader("r1") /\ HistSame
  \/ NodeAddWriter("lw1") /\ HistSame
  \/ NodeDropSignal /\ HistDropSignal
  \/ NodeDropRemoveNode /\ HistDrop("remove_node")
  \/ NodeDropFields /\ HistDrop("release")

\* futures::select! takes a ready branch at random, so the stop branch is
\* taken at last when it is ready again and again; a handler that began is
\* finished; a drop that began is finished.
SpecLife ==
  /\ Init /\ [][NextLife]_vars
  /\ SF_vars(SpinStop /\ HistSame)
  /\ WF_vars(SpinBroadcast /\ HistSame)
  /\ WF_vars(NodeDropRemoveNode /\ HistDrop("remove_node"))
  /\ WF_vars(NodeDropFields /\ HistDrop("release"))

\* An action client, or several, and the AsyncActionServer.
NextAction ==
  \/ \E gid \in GoalIds, goal \in GoalPayloads : ClientSendGoal(gid, goal) /\ SrvHistSame
  \/ ReceiveNewGoalCall /\ SrvHistSame
  \/ ReceiveNewGoalPoll /\ SrvHistSame
  \/ ReceiveNewGoalErr /\ SrvHistSame
  \/ \E h \in newHandles \cup ForeignHandles : AcceptGoal(h) /\ HistAccept(h)
  \/ \E h \in newHandles \cup ForeignHandles : RejectGoal(h) /\ SrvHistSame
  \/ SrvCatchUnwind /\ SrvHistSame

SpecAction == Init /\ [][NextAction]_vars

\* The cancel operations of the client alone.
NextClientCancel ==
  \E c \in CancelCalls : ClientCancel(c[1], c[2], c[3]) /\ SrvHistSame

SpecClientCancel == Init /\ [][NextClientCancel]_vars

\* The cancel operations of the client and what the server makes of them.
NextCancel ==
  \/ \E gid \in GoalIds : ClientSendGoal(gid, "x") /\ SrvHistSame
  \/ ReceiveNewGoalCall /\ SrvHistSame
  \/ ReceiveNewGoalPoll /\ SrvHistSame
  \/ \E h \in newHandles : AcceptGoal(h) /\ HistAccept(h)
  \/ SrvCatchUnwind /\ SrvHistSame
  \/ Tick /\ SrvHistSame
  \/ \E c \in CancelCalls : ClientCancel(c[1], c[2], c[3]) /\ SrvHistSame
  \/ ReceiveCancelRequest /\ SrvHistSame
  \/ \E ids \in SUBSET GoalIds : RespondToCancelRequests(ids) /\ SrvHistSame

SpecCancel == Init /\ [][NextCancel]_vars

\* The poll-style receives of the client and the replies that reach it.
NextPoll ==
  \/ \E op \in PollOps, r \in Replies : ReplyArrives(op, r) /\ SrvHistSame
  \/ \E op \in PollOps, id \in ReplyIds : PollReceive(op, id) /\ SrvHistSame

SpecPoll == Init /\ [][NextPoll]_vars

\* One feedback_stream cursor and the samples that reach its subscription.
NextFeedback ==
  \/ \E m \in FbSamples : FeedbackArrives(m) /\ SrvHistSame
  \/ \E g \in GoalIds : FeedbackStream(g) /\ SrvHistSame
  \/ FeedbackStreamNext /\ SrvHistSame

SpecFeedback == Init /\ [][NextFeedback]_vars

\* One status_stream cursor and the samples that reach its subscription.
NextStatus ==
  \/ \E m \in StSamples : StatusArrives(m) /\ SrvHistSame
  \/ \E g \in GoalIds : StatusStream(g) /\ SrvHistSame
  \/ StatusStreamNext /\ SrvHistSame

SpecStatus == Init /\ [][NextStatus]_vars

\* feedback_stream(g1) and feedback_stream(g2) polled on one client.
NextMux ==
  \/ \E m \in FbSamples : MuxArrives(m) /\ SrvHistSame
  \/ \E g \in GoalIds : CursorNext(g) /\ SrvHistSame

SpecMux == Init /\ [][NextMux]_vars

\* create_subscription and create_publisher under either option.
NextCreate ==
  \/ \E g \in LocalReaders :
       NodeAddReader(g) /\ HistCreate("create_subscription", g, "Ok")
  \/ \E g \in LocalWriters \cup {"lw2"} :
       NodeAddWriter(g) /\ HistCreate("create_publisher", g, "Ok")
  \/ \E op \in {"create_subscription", "create_publisher"} :
       NodeCreateErr /\ HistCreate(op, "-", "Err")

SpecCreate == InitOptions /\ [][NextCreate]_vars

\* The maps of the spinner beside the endpoints the Node creates: the
\* participant reports matches of all its local endpoints.
NextKeys ==
  \/ NodeSpinner /\ HistSame
  \/ SpinStart /\ HistSame
  \/ \E g \in LocalReaders : NodeAddReader(g) /\ HistSame
  \/ \E g \in LocalWriters : NodeAddWriter(g) /\ HistSame
  \/ \E e \in DdsEvents : nConsumed < MaxEvents /\ SpinDds(e) /\ HistConsume(e)
  \/ SpinBroadcast /\ HistBroadcast

SpecKeys == Init /\ [][NextKeys]_vars

\* The spinner with one listener that never drains, every kind of item of
\* the two streams, and the stop signal of the drop.
SpinDdsEvents == {RWM("r1", "w1"), OtherDds}
SpinRosUpdates == {<<"p1", "nA">>, <<"p1", "nB">>, <<"p2", "nA">>}

NextSpin ==
  \/ NodeSpinner /\ HistSame
  \/ SpinStart /\ HistSame
  \/ (\A c \in Channels : chan[c].st = "unused") /\ UserStatusReceiver /\ HistRegister
  \/ \E e \in SpinDdsEvents : nConsumed < MaxEvents /\ SpinDds(e) /\ HistConsume(e)
  \/ \E u \in SpinRosUpdates :
       nConsumed < MaxEvents /\ SpinRos(u[1], u[2]) /\ HistConsume(RosUpdate(u[1], u[2]))
  \/ SpinRosErr /\ HistRosErr
  \/ SpinBroadcast /\ HistBroadcast
  \/ SpinStop /\ HistSame
  \/ NodeDropSignal /\ HistDropSignal
  \/ NodeDropRemoveNode /\ HistDrop("remove_node")
  \/ NodeDropFields /\ HistDrop("release")

SpecSpin == Init /\ [][NextSpin]_vars

\* -------------------------------------------------------------- properties

\* events that match what call t waits for, and the map it samples
OwnMatch(t, e) ==
  /\ e.kind = (IF taskKind[t] = "writer" THEN "RemoteWriterMatched"
               ELSE "RemoteReaderMatched")
  /\ e.local = taskArg[t]
PeerMap(t) ==
  IF taskKind[t] = "writer" THEN readers_to_remote_writers
  ELSE writers_to_remote_readers
PeerPresent(t) == taskArg[t] \in DOMAIN PeerMap(t) /\ PeerMap(t)[taskArg[t]] # {}
MatchQueued(t) ==
  /\ taskChan[t] \in Channels
  /\ \E i \in 1..Len(chan[taskChan[t]].q) : OwnMatch(t, chan[taskChan[t]].q[i])
TaskOverflow(t) == taskChan[t] \in Channels /\ overflow[taskChan[t]]
InLoop == spinPc \in {"select", "bcast"}

\* C1: readers_to_remote_writers[r] contains w exactly when the events
\* consumed so far hold a RemoteWriterMatched{r, w} with no WriterLost{w}
\* after it.
C1_MapTracksMatchedPairs ==
  /\ \A r \in DOMAIN readers_to_remote_writers :
       \A w \in readers_to_remote_writers[r] : <<r, w>> \in matchedNow
  /\ \A p \in matchedNow :
       /\ p[1] \in DOMAIN readers_to_remote_writers
       /\ p[2] \in readers_to_remote_writers[p[1]]

\* r1 is matched with w1 while r2 has lost the only writer it had
C1_Witness ==
  /\ <<"r1", "w1">> \in matchedNow
  /\ "r2" \in DOMAIN readers_to_remote_writers
  /\ readers_to_remote_writers["r2"] = {}

C3_CompletesOnlyOnOwnMatch ==
  [][\A t \in Tasks :
       LET q == IF taskChan[t] \in Channels THEN chan[taskChan[t]].q ELSE <<>>
           q2 == IF taskChan[t] \in Channels THEN chan'[taskChan[t]].q ELSE <<>>
       IN
       /\ (taskPc[t] = "s2" /\ taskPc'[t] # "s2")
            => taskPc'[t] = (IF PeerPresent(t) THEN "done" ELSE "waiting")
       /\ taskPc[t] = "waiting"
            => /\ taskPc'[t] \in {"waiting", "done"}
               /\ taskPc'[t] = "done" => q # <<>> /\ OwnMatch(t, Head(q))
               /\ (Len(q2) < Len(q) /\ ~OwnMatch(t, Head(q)))
                    => taskPc'[t] = "waiting"
               /\ (Len(q2) < Len(q) /\ OwnMatch(t, Head(q)))
                    => taskPc'[t] = "done"
    ]_vars

\* wait_for_writer(r1) received the one event consumed, a match of r2, and
\* is still suspended
C3_Witness ==
  /\ taskPc[1] = "waiting" /\ taskKind[1] = "writer"
  /\ nConsumed = 1 /\ nRecv[taskChan[1]] = 1
  /\ "r2" \in DOMAIN readers_to_remote_writers

\* C4: drop runs try_send (when a spinner was created, whatever its result),
\* then remove_node, and the endpoints of the node are released after both;
\* once remove_node ran the node is in neither the registry nor the last
\* graph publication.
C4_DropOrder ==
  LET norm == [i \in 1..Len(dropTrace) |->
                 IF dropTrace[i] \in {"try_send_ok", "try_send_err"}
                   THEN "try_send" ELSE dropTrace[i]]
      full == (IF stop_spin_sender = "none" THEN <<>> ELSE <<"try_send">>)
                \o <<"remove_node", "release">>
  IN  /\ Len(norm) <= Len(full)
      /\ norm = SubSeq(full, 1, Len(norm))
      /\ nodePc # "alive" => Len(norm) >= Len(full) - 2
      /\ builtins = FALSE <=> norm = full
      /\ "remove_node" \in Range(norm)
           => /\ NodeName \notin ctxNodes
              /\ graphPubs # <<>>
              /\ NodeName \notin graphPubs[Len(graphPubs)]
      /\ (dropTrace # <<>> /\ dropTrace[1] = "try_send_ok")
           => stopQ = 1 \/ spinPc = "done"

\* the node was in the graph, its spinner had returned before the drop, so
\* the send failed, and the drop went on to the end
C4_Witness ==
  /\ dropTrace = <<"try_send_err", "remove_node", "release">>
  /\ Len(graphPubs) >= 2

\* C5: once the Node is being dropped, a spin() that is in its loop leaves it
\* and returns Ok, also with events arriving for ever.
C5_SpinnerStopsAfterDrop ==
  (nodePc # "alive" /\ InLoop) ~> (spinPc = "done" /\ spinRet = "Ok")

\* the node is gone and the spinner is in a handler, the stop message queued
C5_Witness == nodePc = "dropped" /\ spinPc = "bcast" /\ stopQ = 1

\* C6 as stated: when the status stream has ended, spin() returns.
C6_EndsWithStream == (ddsEnded /\ InLoop) ~> spinPc = "done"

\* C6, amended: the loop is left only by the stop branch (a stop message, or
\* the stop sender gone); the end of the status stream leaves the spinner in
\* its loop.
C6_EndsOnlyOnStop ==
  [][/\ (InLoop /\ spinPc' = "done")
          => (stopQ > 0 \/ stop_spin_sender = "dropped")
     /\ (~ddsEnded /\ ddsEnded') => (spinPc' = spinPc /\ spinRet' = spinRet)
    ]_vars

\* the stream has ended, no stop was sent, the spinner is at its select
C6_Witness ==
  /\ ddsEnded /\ spinPc = "select"
  /\ stop_spin_sender = "held" /\ stopQ = 0

\* C7: a broadcast leaves in the list exactly the listeners whose channel
\* was not closed, each once; an open listener with room gets the event
\* appended, a full one is kept and gets nothing.
C7_BroadcastKeepsOpenListeners ==
  [][(spinPc = "bcast" /\ spinPc' # "bcast") =>
       /\ spinPc' = "select"
       /\ Range(status_event_senders')
            = {c \in Range(status_event_senders) : chan[c].st # "closed"}
       /\ Cardinality(Range(status_event_senders')) = Len(status_event_senders')
       /\ \A c \in Range(status_event_senders) :
            /\ (chan[c].st = "open" /\ Len(chan[c].q) >= ListenerCap)
                 => chan'[c] = chan[c]
            /\ (chan[c].st = "open" /\ Len(chan[c].q) < ListenerCap)
                 => chan'[c] = [chan[c] EXCEPT !.q = Append(@, cur)]
    ]_vars

\* listener 1 is full and was kept, listener 2 was closed and is removed
C7_Witness ==
  /\ overflow[1] /\ 1 \in Range(status_event_senders)
  /\ chan[2].st = "closed" /\ 2 \notin Range(status_event_senders)
  /\ nBroadcast = nConsumed

StrictlyIncreasing(s) == \A i \in 1..(Len(s) - 1) : s[i] < s[i + 1]

\* what C8 says of listener c, the events counted from number `since`
C8_Listener(c, since) ==
  chan[c].st = "open" =>
    /\ Len(qid[c]) = Len(chan[c].q)
    /\ Len(chan[c].q) <= ListenerCap
    /\ StrictlyIncreasing(qid[c])
    /\ \A i \in 1..Len(qid[c]) :
         /\ qid[c][i] > since
         /\ qid[c][i] <= nBroadcast
         /\ qid[c][i] > lastRecv[c]
    /\ nRecv[c] > 0 => lastRecv[c] > since
    /\ nRecv[c] = 0 => lastRecv[c] = 0
    /\ ~overflow[c] => nRecv[c] + Len(qid[c]) = nBroadcast - regAt[c]

\* C8 as stated: what a listener receives are events consumed after it was
\* registered.
C8_AfterRegistrationConsumed == \A c \in Channels : C8_Listener(c, regCons[c])

\* C8, amended: a listener receives, in order and at most once, events
\* broadcast after it was registered (the one consumed just before it, whose
\* broadcast was still to come, among them); its queue never holds more than
\* 8; a listener that never was full at a broadcast gets every one of them.
C8_AfterRegistrationBroadcast == \A c \in Channels : C8_Listener(c, regAt[c])

\* listener 1 stalled and lost an event, listener 2 drained and lost none
C8_Witness ==
  /\ chan[1].st = "open" /\ overflow[1]
  /\ chan[2].st = "open" /\ ~overflow[2] /\ nRecv[2] >= 2

\* C9: receive_new_goal hands out a NewGoalHandle only for a request whose
\* goal id is not in the map, and records the goal as Unknown with the goal of
\* the request; a request whose goal id is in the map is dropped, the map and
\* the handles stay as they are, and no response ever carries its request id.
C9_NewGoalsOnly ==
  /\ [](\A r \in goalResponses : r.req_id \notin discarded)
  /\ [][(srvPc = "receiving" /\ Len(goalReqs') < Len(goalReqs)) =>
          LET r == Head(goalReqs)
              h == [goal_id |-> r.goal_id, req_id |-> r.req_id]
          IN  IF r.goal_id \in DOMAIN goals
                THEN /\ goals' = goals
                     /\ newHandles' = newHandles
                     /\ goalResponses' = goalResponses
                     /\ r.req_id \in discarded'
                     /\ srvPc' = "receiving"
                ELSE /\ newHandles' = newHandles \cup {h}
                     /\ DOMAIN goals' = DOMAIN goals \cup {r.goal_id}
                     /\ goals'[r.goal_id] = [status |-> "Unknown", goal |-> r.goal]
                     /\ \A g \in DOMAIN goals : goals'[g] = goals[g]
                     /\ lastOp'.ret = "NewGoalHandle"
                     /\ srvPc' = "idle"
       ]_vars
  /\ [][newHandles' \subseteq newHandles
          \/ (srvPc = "receiving" /\ Len(goalReqs') < Len(goalReqs))]_vars

\* a goal was received and rejected, a second request with the same goal id
\* was dropped
C9_Witness ==
  /\ discarded # {}
  /\ \E r \in goalResponses : ~r.accepted
  /\ \E g \in DOMAIN goals : goals[g].status = "Unknown"

\* C10: accept_goal on a goal that is Unknown puts it to Accepted, publishes
\* the GoalStatusArray, sends SendGoalResponse accepted = true to the request
\* id of the handle and returns an AcceptedGoalHandle.
C10_AcceptGoal ==
  (lastOp.op = "accept_goal" /\ lastOp.pre = "Unknown") =>
    /\ StatusOf(lastOp.goal_id) = "Accepted"
    /\ statusPubs # <<>>
    /\ lastOp.goal_id \in DOMAIN statusPubs[Len(statusPubs)]
    /\ statusPubs[Len(statusPubs)][lastOp.goal_id] = "Accepted"
    /\ [req_id |-> lastOp.req_id, accepted |-> TRUE] \in goalResponses
    /\ lastOp.ret = "AcceptedGoalHandle"
    /\ [goal_id |-> lastOp.goal_id] \in acceptedHandles

\* C11: after reject_goal returned Ok for goal G the table has no record of
\* G (so that a later request with id G is taken as a new goal).
C11_RejectedGoalForgotten ==
  (lastOp.op = "reject_goal" /\ lastOp.ret = "Ok")
    => lastOp.goal_id \notin DOMAIN goals

\* C12: accept_goal and reject_goal return NoSuchGoal exactly for a goal id
\* that is not in the table and WrongGoalState exactly for a record that is
\* not Unknown, and then no response is sent, nothing is published and the
\* table is as before. A call is seen by the record of the last call changing.
C12_ErrorsLeaveServerAlone ==
  [][(lastOp' # lastOp /\ lastOp'.op \in {"accept_goal", "reject_goal"}) =>
       LET st == StatusOf(lastOp'.goal_id) IN
       /\ st = "none" <=> lastOp'.ret = "NoSuchGoal"
       /\ st \notin {"none", "Unknown"} <=> lastOp'.ret = "WrongGoalState"
       /\ lastOp'.ret \in {"NoSuchGoal", "WrongGoalState"}
            => /\ goals' = goals
               /\ goalResponses' = goalResponses
               /\ statusPubs' = statusPubs
               /\ srvPc' = srvPc
    ]_vars

\* reject_goal was refused for a goal that is Accepted, after accept_goal had
\* been refused for a goal the server does not know
C12_Witness ==
  /\ lastOp.op = "reject_goal" /\ lastOp.ret = "WrongGoalState"
  /\ StatusOf(lastOp.goal_id) = "Accepted"
  /\ goalResponses = {}

TerminalStatuses == {"Succeeded", "Canceled", "Aborted"}
StatusRank(st) ==
  CASE st = "Accepted" -> 1 [] st = "Executing" -> 2 [] st = "Canceling" -> 3
    [] st \in TerminalStatuses -> 4 [] OTHER -> 0

StatusEdges ==
  {<<"Unknown", "Accepted">>, <<"Accepted", "Executing">>,
   <<"Executing", "Succeeded">>, <<"Accepted", "Aborted">>,
   <<"Executing", "Aborted">>, <<"Accepted", "Canceling">>,
   <<"Executing", "Canceling">>, <<"Canceling", "Canceled">>}

\* C14: the status of a record changes only along the edges of the goal state
\* machine, the edge Unknown -> Accepted only in accept_goal; a record in a
\* terminal status does not change.
C14_StatusEdges ==
  [][\A g \in DOMAIN goals :
       /\ g \in DOMAIN goals'
            => \/ goals'[g].status = goals[g].status
               \/ /\ <<goals[g].status, goals'[g].status>> \in StatusEdges
                  /\ goals[g].status \notin TerminalStatuses
                  /\ goals[g].status = "Unknown"
                       => /\ lastOp'.op = "accept_goal"
                          /\ lastOp'.goal_id = g
       /\ goals[g].status \in TerminalStatuses
            => g \in DOMAIN goals' /\ goals'[g] = goals[g]
    ]_vars

\* accept_goal moved g1 from Unknown to Accepted while g2 stayed Unknown
C14_Witness ==
  /\ StatusOf("g1") = "Accepted" /\ StatusOf("g2") = "Unknown"
  /\ lastOp.op = "accept_goal" /\ lastOp.goal_id = "g1"

\* C15: when the request first in line is a cancel_all_goals_before(t), what
\* receive_cancel_request returns are the goals the server holds that were
\* accepted at or before t, and no others.
C15_CancelAllBefore ==
  (lastOp.op = "receive_cancel_request" /\ lastOp.req_id # 0) =>
    LET rq == Head(cancelReqs).goal_info IN
    (rq.goal_id = GoalIdZero /\ rq.stamp # TimeZero)
      => cancelYield = {g \in DOMAIN goals :
                          /\ goals[g].status \in {"Accepted", "Executing"}
                          /\ acceptedAt[g] <= rq.stamp}

\* C17: a cancel operation that succeeds adds one CancelGoalRequest to those
\* sent, with goal id and stamp (g, ZERO) for cancel_goal(g), (ZERO, t) for
\* cancel_all_goals_before(t), (ZERO, ZERO) for cancel_all_goals() and (g, t)
\* for async_cancel_goal(g, t); one that fails adds none.
C17_CancelRequestFields ==
  [][(lastCli' # lastCli /\ lastCli'.op \in CancelOps) =>
       LET c == lastCli'
           gid == IF c.op \in {"cancel_goal", "async_cancel_goal"}
                    THEN c.goal_id ELSE GoalIdZero
           st == IF c.op \in {"cancel_all_goals_before", "async_cancel_goal"}
                    THEN c.stamp ELSE TimeZero
       IN  IF c.ret # 0
             THEN cancelReqs' = Append(cancelReqs,
                    [req_id |-> c.ret, goal_info |-> [goal_id |-> gid, stamp |-> st]])
             ELSE cancelReqs' = cancelReqs
    ]_vars

\* cancel_all_goals_before(2) was sent after cancel_goal(g1)
C17_Witness ==
  /\ Len(cancelReqs) = 2
  /\ cancelReqs[1].goal_info = [goal_id |-> "g1", stamp |-> TimeZero]
  /\ cancelReqs[2].goal_info = [goal_id |-> GoalIdZero, stamp |-> 2]
  /\ lastCli.op = "cancel_all_goals_before"

\* C18: a poll-style receive for request id returns the first queued item that
\* is a reply to id or an error (Some(reply) or the error) and takes the queue
\* up to and including that item; when the queue holds no such item it
\* returns None and leaves the queue empty. The queues of the other two
\* clients are not touched.
C18_PollReceive ==
  [][((lastPoll' # lastPoll \/ replyQ' # replyQ)
        /\ \A o \in PollOps : Len(replyQ'[o]) <= Len(replyQ[o])) =>
       LET op == lastPoll'.op
           id == lastPoll'.req_id
           q == replyQ[op]
           hits == {i \in 1..Len(q) : q[i].err \/ q[i].req_id = id}
       IN /\ \A o \in PollOps \ {op} : replyQ'[o] = replyQ[o]
          /\ IF hits = {}
               THEN lastPoll'.ret = RetNone /\ replyQ'[op] = <<>>
               ELSE LET i == CHOOSE j \in hits : \A k \in hits : j <= k IN
                    /\ lastPoll'.ret = IF q[i].err THEN RetErr ELSE RetSome(q[i].val)
                    /\ replyQ'[op] = SubSeq(q, i + 1, Len(q))
    ]_vars

\* a receive skipped a reply to another request, returned the one to its own
\* and left a third in the queue
C18_Witness ==
  /\ lastPoll.op = "receive_result" /\ lastPoll.ret.tag = "Some"
  /\ lastPoll.taken = 2 /\ Len(replyQ["receive_result"]) = 1

\* C19: what a feedback_stream(G) cursor has yielded is, in the order of
\* arrival, one item for each sample it has taken that is an error or a
\* message for G: Err for an error, the feedback payload for a message;
\* messages for other goals add nothing, and samples after an error are
\* still yielded.
C19_FeedbackStream ==
  LET taken == SubSeq(fbIn, 1, fbPos)
      kept == SelectSeq(taken, LAMBDA m : m.err \/ m.goal_id = fbGoal)
  IN  fbOut = [i \in 1..Len(kept) |->
                 IF kept[i].err THEN ItemErr ELSE ItemOk(kept[i].feedback)]

\* the cursor for g1 took a message for g2, an error and a message for g1
C19_Witness ==
  /\ fbGoal = "g1" /\ fbPos = 3
  /\ ~fbIn[1].err /\ fbIn[1].goal_id = "g2"
  /\ fbOut = <<ItemErr, ItemOk("p")>>

\* C20: what a status_stream(G) cursor has yielded is, in the order of
\* arrival, one item for each sample it has taken that is an error or an
\* array with an entry for G: Err for an error, the first entry for G for an
\* array; arrays without an entry for G add nothing.
C20_StatusStream ==
  LET Has(m) == \E i \in 1..Len(m.status_list) : m.status_list[i].goal_id = stGoal
      First(m) == CHOOSE i \in 1..Len(m.status_list) :
                    /\ m.status_list[i].goal_id = stGoal
                    /\ \A j \in 1..(i - 1) : m.status_list[j].goal_id # stGoal
      taken == SubSeq(stIn, 1, stPos)
      kept == SelectSeq(taken, LAMBDA m : m.err \/ Has(m))
  IN  stOut = [i \in 1..Len(kept) |->
                 IF kept[i].err THEN ItemErr
                 ELSE ItemOk(kept[i].status_list[First(kept[i])])]

\* the cursor for g1 took an array with two entries for g1 and yielded the
\* first of them
C20_Witness ==
  /\ stGoal = "g1" /\ stPos = 1
  /\ stIn[1].status_list = <<[goal_id |-> "g1", status |-> "Accepted"],
                             [goal_id |-> "g1", status |-> "Executing"]>>
  /\ stOut = <<ItemOk([goal_id |-> "g1", status |-> "Accepted"])>>

\* C21: with one feedback_stream cursor per goal on the same client, no
\* sample is taken by both cursors, and what the cursor of a goal has yielded
\* as payloads is every message for that goal among the samples taken so
\* far, in the order of arrival.
C21_PerGoalStreams ==
  LET taken == SubSeq(subArrived, 1, Len(subArrived) - Len(subQ)) IN
  /\ Range(curTook["g1"]) \cap Range(curTook["g2"]) = {}
  /\ \A g \in GoalIds :
       LET for == SelectSeq(taken, LAMBDA m : ~m.err /\ m.goal_id = g)
           yielded == SelectSeq(curOut[g], LAMBDA it : it.tag = "Ok")
       IN  yielded = [i \in 1..Len(for) |-> ItemOk(for[i].feedback)]

\* C22: a create_subscription / create_publisher that succeeds puts the new
\* Gid into readers / writers and hands update_node an info that lists all
\* of readers and writers, the parameter-events writer and, iff rosout is
\* enabled, the rosout writer, and one graph update is published; one that
\* fails changes neither set and publishes nothing.
C22_CreateUpdatesGraph ==
  [][lastCreate' # lastCreate =>
       LET c == lastCreate' IN
       IF c.ret = "Ok"
         THEN /\ c.op = "create_subscription" => c.gid \in readers' /\ writers' = writers
              /\ c.op = "create_publisher" => c.gid \in writers' /\ readers' = readers
              /\ ctxInfo'.readers = readers'
              /\ ctxInfo'.writers \ {"row"} = writers' \cup {"pew"}
              /\ "row" \in ctxInfo'.writers <=> rosout_writer
              /\ Len(graphPubs') = Len(graphPubs) + 1
         ELSE /\ readers' = readers /\ writers' = writers
              /\ ctxInfo' = ctxInfo /\ graphPubs' = graphPubs
    ]_vars

\* without rosout: a publisher was created after a subscription and the
\* info lists both and the parameter-events writer
C22_Witness ==
  /\ ~rosout_writer
  /\ lastCreate = [op |-> "create_publisher", gid |-> "lw1", ret |-> "Ok"]
  /\ readers = {"r1"}
  /\ ctxInfo = [name |-> NodeName, readers |-> {"r1"}, writers |-> {"pew", "lw1"}]

\* C23: spinner() returns a Spinner only when the node holds no stop sender;
\* a call made when it holds one panics and leaves the sender, the stop
\* channel and the spinner that exists as they were.
C23_OneSpinner ==
  [][/\ (lastCreate' # lastCreate /\ lastCreate'.op = "spinner") =>
          IF stop_spin_sender = "none"
            THEN /\ lastCreate'.ret = "Ok"
                 /\ stop_spin_sender' = "held" /\ spinPc' = "created"
            ELSE /\ lastCreate'.ret = "panic"
                 /\ UNCHANGED <<stop_spin_sender, stop_spin_receiver, stopQ, spinPc>>
     /\ (stop_spin_sender # "none" /\ spinPc # "created") => spinPc' # "created"
    ]_vars

\* the second call came while the first spinner was in its loop
C23_Witness ==
  /\ lastCreate = [op |-> "spinner", gid |-> "-", ret |-> "panic"]
  /\ spinPc = "select" /\ stop_spin_sender = "held" /\ stop_spin_receiver = "open"

\* C24 as stated: every key of the two maps is a reader, resp. writer,
\* created through this Node.
C24_KeysCreatedHere ==
  /\ DOMAIN readers_to_remote_writers \subseteq readers
  /\ DOMAIN writers_to_remote_readers \subseteq writers

\* C24, amended: a key enters readers_to_remote_writers only as the
\* local_reader of a RemoteWriterMatched event the spinner consumes, and
\* writers_to_remote_readers only as the local_writer of a
\* RemoteReaderMatched event, whether this Node created the endpoint or not;
\* no key leaves.
C24_KeysFromMatchEvents ==
  [][/\ \A k \in DOMAIN readers_to_remote_writers' \ DOMAIN readers_to_remote_writers :
          cur'.kind = "RemoteWriterMatched" /\ cur'.local = k /\ spinPc = "select"
     /\ \A k \in DOMAIN writers_to_remote_readers' \ DOMAIN writers_to_remote_readers :
          cur'.kind = "RemoteReaderMatched" /\ cur'.local = k /\ spinPc = "select"
     /\ DOMAIN readers_to_remote_writers \subseteq DOMAIN readers_to_remote_writers'
     /\ DOMAIN writers_to_remote_readers \subseteq DOMAIN writers_to_remote_readers'
    ]_vars

\* r1 was created through the Node and r2 was not; both are keys
C24_Witness ==
  /\ readers = {"r1"}
  /\ DOMAIN readers_to_remote_writers = {"r1", "r2"}

\* C25: reject_goal for a goal recorded as Unknown sends at most the
\* response accepted: false for the request id of the handle, and sends it
\* when it returns Ok; it publishes no status array and the goal keeps the
\* status Unknown.
C25_RejectGoal ==
  [][(lastOp' # lastOp /\ lastOp'.op = "reject_goal" /\ lastOp'.pre = "Unknown") =>
       LET resp == [req_id |-> lastOp'.req_id, accepted |-> FALSE] IN
       /\ goalResponses' \subseteq goalResponses \cup {resp}
       /\ lastOp'.ret = "Ok" => resp \in goalResponses'
       /\ lastOp'.ret \in {"Ok", "DDSError"}
       /\ statusPubs' = statusPubs
       /\ goals' = goals
    ]_vars

\* g2 was rejected while g1 is on record too; nothing was published
C25_Witness ==
  /\ lastOp.op = "reject_goal" /\ lastOp.goal_id = "g2" /\ lastOp.ret = "Ok"
  /\ StatusOf("g2") = "Unknown" /\ "g1" \in DOMAIN goals
  /\ [req_id |-> lastOp.req_id, accepted |-> FALSE] \in goalResponses
  /\ statusPubs = <<>>

\* the step in which the spinner takes an event of the given kind from the
\* participant's status stream
ConsumesDds(kind) == spinPc = "select" /\ spinPc' = "bcast" /\ cur'.kind = kind

\* C26: when the spinner consumes ReaderLost{guid}, every value set of
\* writers_to_remote_readers loses guid and nothing else, the keys of that
\* map stay, readers_to_remote_writers and external_nodes are untouched, and
\* the event goes on to the broadcast; WriterLost does the same to
\* readers_to_remote_writers.
C26_LostRemovesFromValues ==
  [][/\ ConsumesDds("ReaderLost") =>
          /\ DOMAIN writers_to_remote_readers' = DOMAIN writers_to_remote_readers
          /\ \A k \in DOMAIN writers_to_remote_readers :
               writers_to_remote_readers'[k] = writers_to_remote_readers[k] \ {cur'.remote}
          /\ UNCHANGED <<readers_to_remote_writers, external_nodes>>
     /\ ConsumesDds("WriterLost") =>
          /\ DOMAIN readers_to_remote_writers' = DOMAIN readers_to_remote_writers
          /\ \A k \in DOMAIN readers_to_remote_writers :
               readers_to_remote_writers'[k] = readers_to_remote_writers[k] \ {cur'.remote}
          /\ UNCHANGED <<writers_to_remote_readers, external_nodes>>
    ]_vars

\* rr1 was matched to lw1 and then lost: the key lw1 stays with an empty set
C26_Witness ==
  /\ nConsumed = 2 /\ cur = ReaderLost("rr1") /\ spinPc = "bcast"
  /\ DOMAIN writers_to_remote_readers = {"lw1"}
  /\ writers_to_remote_readers["lw1"] = {}

\* the step in which the spinner takes an Ok item from the graph topic
ConsumesRos == spinPc = "select" /\ spinPc' = "bcast" /\ cur'.kind = "ROS"

\* the step in which send_status_event runs for the event in cur
Broadcasts == spinPc = "bcast" /\ spinPc' = "select"

\* what a broadcast of the event e does to the listeners on the list: one
\* that is open and has room gets e appended once, any other gets nothing
DeliversOnce(e) ==
  \A c \in Range(status_event_senders) :
    chan'[c].q = IF chan[c].st = "open" /\ Len(chan[c].q) < ListenerCap
                   THEN Append(chan[c].q, e) ELSE chan[c].q

\* C27: a graph update consumed by the spinner sets external_nodes[gid] to
\* the node list of that update, whatever was there, and leaves the entries
\* of other gids and the two other maps alone; external_nodes changes in no
\* other step; the update is then broadcast once, as it is.
C27_ExternalNodesLatest ==
  [][/\ ConsumesRos =>
          /\ DOMAIN external_nodes' = DOMAIN external_nodes \cup {cur'.local}
          /\ external_nodes'[cur'.local] = cur'.remote
          /\ \A g \in DOMAIN external_nodes \ {cur'.local} :
               external_nodes'[g] = external_nodes[g]
          /\ UNCHANGED <<readers_to_remote_writers, writers_to_remote_readers, chan>>
     /\ external_nodes' # external_nodes => ConsumesRos
     /\ (Broadcasts /\ cur.kind = "ROS") => DeliversOnce(cur) /\ UNCHANGED mapVars
    ]_vars

\* p1 was updated twice and p2 once; the listener got all three updates
C27_Witness ==
  /\ "p2" \in DOMAIN external_nodes /\ "p1" \in DOMAIN external_nodes
  /\ external_nodes["p1"] = "nB"
  /\ \E c \in Range(status_event_senders) :
       chan[c].q = <<RosUpdate("p1", "nA"), RosUpdate("p2", "nA"), RosUpdate("p1", "nB")>>

\* C28: an error item of the graph topic changes none of the three maps,
\* puts nothing into any listener's channel and leaves the spinner at its
\* select with everything it holds as before, so that later items and the
\* stop signal are handled as they would have been.
C28_RosErrorSkipped ==
  [][rosErrAt' # rosErrAt =>
       /\ spinPc = "select"
       /\ UNCHANGED <<mapVars, lsnVars, spinVars>>
    ]_vars

\* the error came first; a graph update and a DDS event were handled and
\* delivered after it, and then the stop signal
C28_Witness ==
  /\ rosErrAt = 0 /\ spinPc = "done" /\ nBroadcast = 2
  /\ "p1" \in DOMAIN external_nodes /\ "r1" \in DOMAIN readers_to_remote_writers
  /\ \E c \in Channels : Len(chan[c].q) = 2

\* C29: taking a DDS status event from the stream puts nothing into the
\* channels yet and, for an event that is no match and no loss, changes no
\* map; the broadcast that follows changes no map and gives the event once
\* to each open listener with room; every event consumed is broadcast
\* before the next one is consumed.
C29_DdsBroadcastOnce ==
  [][/\ (spinPc = "select" /\ spinPc' = "bcast" /\ cur'.kind # "ROS") =>
          /\ chan' = chan
          /\ cur'.kind \notin {"RemoteReaderMatched", "RemoteWriterMatched",
                               "ReaderLost", "WriterLost"}
               => UNCHANGED mapVars
     /\ (Broadcasts /\ cur.kind # "ROS") => DeliversOnce(cur) /\ UNCHANGED mapVars
     /\ nConsumed = nBroadcast + (IF spinPc = "bcast" THEN 1 ELSE 0)
     /\ nConsumed' = nBroadcast' + (IF spinPc' = "bcast" THEN 1 ELSE 0)
    ]_vars

\* a match and another event were consumed; the listener holds both, and
\* the map has the match
C29_Witness ==
  /\ \E c \in Range(status_event_senders) : chan[c].q = <<RWM("r1", "w1"), OtherDds>>
  /\ readers_to_remote_writers = [k \in {"r1"} |-> {"w1"}]
  /\ spinPc = "select" /\ nConsumed = 2

\* C30: no task holds a mutex of the three maps or of the listener list
\* where it suspends: the spinner at its select!, a wait_for_writer or
\* wait_for_reader call at the await of its waiting loop.
C30_NoGuardAcrossAwait ==
  /\ spinPc = "select" => guards[SpinnerTask] = {}
  /\ \A t \in Tasks : taskPc[t] = "waiting" => guards[t] = {}

\* the spinner is back at select! after a graph update it handled under
\* the guard of external_nodes, and a call waits in its loop
C30_Witness ==
  /\ spinPc = "select"
  /\ DOMAIN external_nodes # {}
  /\ \E t \in Tasks : taskPc[t] = "waiting"

\* C31: the readers set and the writers set of the Node are disjoint in
\* every reachable state: a Gid that create_subscription added is never
\* added by create_publisher, nor the other way round.
C31_ReadersWritersDisjoint == readers \cap writers = {}

\* both calls succeeded, more than once
C31_Witness == readers = LocalReaders /\ writers = LocalWriters \cup {"lw2"}

\* C32: a wait_for_writer(r) call that is suspended when the spinner
\* consumes RemoteWriterMatched{local_reader: r} completes at last, however
\* many events were broadcast to its listener before it drained any.
C32_WaitCompletesAfterMatch ==
  \A t \in Tasks :
    (/\ taskPc[t] = "waiting" /\ taskKind[t] = "writer"
     /\ spinPc = "bcast" /\ IsMatchFor("writer", taskArg[t], cur))
      ~> (taskPc[t] = "done")

\* C33: a call of wait_for_writer / wait_for_reader adds one sender to the
\* listener list; when the call completes its sender is still in the list,
\* closed; a broadcast leaves no closed sender in the list, and nothing but
\* a broadcast takes a sender out, so that the senders of completed calls
\* pile up between broadcasts and without a spinner.
C33_SenderPerCall ==
  /\ [](Cardinality(Range(status_event_senders)) = Len(status_event_senders))
  /\ [][/\ \A t \in Tasks :
             /\ (taskPc[t] = PcOf("register") /\ taskPc'[t] # taskPc[t])
                  => status_event_senders'
                       = Append(status_event_senders, taskChan'[t])
             /\ (taskPc[t] # "done" /\ taskPc'[t] = "done")
                  => /\ taskChan'[t] \in Range(status_event_senders')
                     /\ chan'[taskChan'[t]].st = "closed"
        /\ (spinPc = "bcast" /\ spinPc' = "select")
             => \A c \in Range(status_event_senders') : chan'[c].st = "open"
        /\ ~(spinPc = "bcast" /\ spinPc' = "select")
             => Range(status_event_senders) \subseteq Range(status_event_senders')
       ]_vars

\* after a broadcast two calls completed one after the other: the senders
\* of both are in the list
C33_Witness ==
  /\ nBroadcast >= 1 /\ spinPc = "select"
  /\ Len(status_event_senders) >= 2
  /\ \A c \in Range(status_event_senders) : chan[c].st = "closed"

\* a poll-style receive ran on a queue that held the replies to two
\* outstanding requests, one each
PollsOneOfTwo ==
  LET q == replyQ[lastPoll'.op] IN
  /\ lastPoll' # lastPoll \/ replyQ' # replyQ
  /\ \A o \in PollOps : Len(replyQ'[o]) <= Len(replyQ[o])
  /\ Len(q) = 2 /\ ~q[1].err /\ ~q[2].err /\ q[1].req_id # q[2].req_id

\* C34: with the replies to two outstanding requests r1 and r2 queued, the
\* poll for one of them returns its reply, and the poll for the other that
\* follows returns the other reply, in either order of the two polls: no
\* reply is lost by polling for a different request id.
C34_BothRepliesReturned ==
  [][PollsOneOfTwo =>
       LET op == lastPoll'.op
           q == replyQ[op]
           mine == IF q[1].req_id = lastPoll'.req_id THEN q[1] ELSE q[2]
           other == IF q[1].req_id = lastPoll'.req_id THEN q[2] ELSE q[1]
       IN  /\ lastPoll'.ret = RetSome(mine.val)
           /\ PollLoop(replyQ'[op], other.req_id).ret = RetSome(other.val)
    ]_vars

\* C34, amended: the poll for the request whose reply is first in the queue
\* returns it and leaves the other reply, which the poll that follows
\* returns; the poll for the request whose reply is second returns it and
\* discards the first, so that the poll for the other request that follows
\* returns None.
C34_EarlierReplyDiscarded ==
  [][PollsOneOfTwo =>
       LET op == lastPoll'.op
           q == replyQ[op]
       IN  IF q[1].req_id = lastPoll'.req_id
             THEN /\ lastPoll'.ret = RetSome(q[1].val)
                  /\ replyQ'[op] = <<q[2]>>
                  /\ PollLoop(replyQ'[op], q[2].req_id).ret = RetSome(q[2].val)
             ELSE /\ lastPoll'.ret = RetSome(q[2].val)
                  /\ replyQ'[op] = <<>>
                  /\ PollLoop(replyQ'[op], q[1].req_id).ret = RetNone
    ]_vars

\* receive_goal_response(2) returned its reply and took the reply to
\* request 1, queued before it, with it
C34_Witness ==
  /\ lastPoll.op = "receive_goal_response" /\ lastPoll.req_id = 2
  /\ lastPoll.ret.tag = "Some" /\ lastPoll.taken = 2
  /\ replyQ["receive_goal_response"] = <<>>

\* C35: when accept_goal returned DDSError the goal is Unknown as it was
\* before the call, and a goal that accept_goal found Unknown is Accepted
\* in the table only when the SendGoalResponse accepted = true was sent to
\* its request.
C35_AcceptedOnlyIfNotified ==
  /\ (lastOp.op = "accept_goal" /\ lastOp.ret = "DDSError")
       => StatusOf(lastOp.goal_id) = "Unknown"
  /\ (lastOp.op = "accept_goal" /\ lastOp.pre = "Unknown"
        /\ StatusOf(lastOp.goal_id) = "Accepted")
       => [req_id |-> lastOp.req_id, accepted |-> TRUE] \in goalResponses

\* the remote readers the map holds for local writer w
ReadersOf(w) ==
  IF w \in DOMAIN writers_to_remote_readers
    THEN writers_to_remote_readers[w] ELSE {}

\* C36: get_publisher_count(r) is the number of distinct remote writers
\* matched to r and not lost since, 0 for a reader without an entry;
\* consuming a RemoteWriterMatched{r, w} that was consumed before leaves
\* the count as it is. get_subscription_count(w) goes up by one with a
\* RemoteReaderMatched of a reader not yet matched to w, down by one with
\* the ReaderLost of a reader matched to w, and stays with every other event.
C36_CountsDistinctPeers ==
  /\ [](\A r \in LocalReaders :
          get_publisher_count(r) = Cardinality({p \in matchedNow : p[1] = r}))
  /\ [][(spinPc = "select" /\ spinPc' = "bcast") =>
          LET e == cur' IN
          /\ (e.kind = "RemoteWriterMatched" /\ <<e.local, e.remote>> \in matchedNow)
               => \A r \in LocalReaders :
                    get_publisher_count(r)' = get_publisher_count(r)
          /\ \A w \in LocalWriters :
               get_subscription_count(w)' = get_subscription_count(w)
                 + (IF e.kind = "RemoteReaderMatched" /\ e.local = w
                         /\ e.remote \notin ReadersOf(w) THEN 1 ELSE 0)
                 - (IF e.kind = "ReaderLost" /\ e.remote \in ReadersOf(w)
                      THEN 1 ELSE 0)
       ]_vars

\* r1 has two writers, r2 has no entry, lw1 has one reader, and one more
\* event was consumed that left the counts as they were
C36_Witness ==
  /\ get_publisher_count("r1") = 2
  /\ "r2" \notin DOMAIN readers_to_remote_writers /\ get_publisher_count("r2") = 0
  /\ get_subscription_count("lw1") = 1
  /\ nConsumed = 4

\* the mutexes thread h is about to lock and does not hold
Wants(h) ==
  IF h = SpinnerTask
    THEN (IF spinPc = "bcast" THEN SenderArrayGuard \ guards[h] ELSE {})
  ELSE IF h \in Tasks THEN TaskNeeds(h) \ guards[h]
  ELSE {}

WaitsFor(h, o) == h # o /\ Wants(h) \cap guards[o] # {}

\* C37: the spinner and the Node operations on threads of their own never
\* deadlock on the mutexes: no set of threads waits for each other in a
\* circle, and the only thread that locks a mutex while it holds one is the
\* spinner, which holds external_nodes and locks the listener list.
C37_NoLockCycle ==
  /\ \A S \in SUBSET Holders :
       S # {} => \E h \in S : \A o \in S : ~WaitsFor(h, o)
  /\ \A h \in Holders :
       /\ (guards[h] # {} /\ Wants(h) # {})
            => /\ h = SpinnerTask
               /\ guards[h] = InfoMapGuard
               /\ Wants(h) = SenderArrayGuard
       /\ Cardinality(guards[h]) > 1
            => h = SpinnerTask /\ guards[h] = InfoMapGuard \cup SenderArrayGuard

\* the spinner holds external_nodes and waits for the listener list, which
\* a call holds inside status_receiver
C37_Witness ==
  /\ guards[SpinnerTask] = InfoMapGuard /\ spinPc = "bcast"
  /\ \E t \in Tasks : guards[t] = SenderArrayGuard

\* C38: to every request id of a NewGoalHandle this server returned at most
\* one SendGoalResponse is sent: a response is sent only in a call that
\* takes the handle of the request away, a request that was answered has no
\* handle left, no two handles are for one request, and no request is
\* answered both accepted and rejected.
C38_OneResponsePerHandle ==
  /\ [](/\ \A h \in newHandles, r \in goalResponses : r.req_id # h.req_id
        /\ \A h1, h2 \in newHandles : h1.req_id = h2.req_id => h1 = h2
        /\ \A r1, r2 \in goalResponses : r1.req_id = r2.req_id => r1 = r2)
  /\ [][\A r \in goalResponses' \ goalResponses :
          r.req_id \notin {f.req_id : f \in ForeignHandles}
            => \E h \in newHandles \ newHandles' : h.req_id = r.req_id
       ]_vars

\* the request of one handle was answered by reject_goal, the handle of
\* another request is still with the caller
C38_Witness ==
  /\ \E r \in goalResponses : r.req_id \notin {f.req_id : f \in ForeignHandles}
  /\ newHandles # {}

====
